---------------------------- MODULE Spec2Model ----------------------------
(***************************************************************************)
(* A model of the research-dashboard job engine: the stream-json line      *)
(* parser (internal/parser), the job record and store (internal/jobstore), *)
(* the subprocess runner (internal/runner) and the HTTP handlers that      *)
(* submit and cancel jobs (internal/server).                               *)
(*                                                                         *)
(* Go strings that are trimmed, joined or concatenated by the code are     *)
(* sequences of tokens (<<>> is the empty string, " " and "\n" are         *)
(* whitespace tokens); enumerations and map keys are TLA+ strings.         *)
(***************************************************************************)
EXTENDS Integers, Sequences, FiniteSets, TLC

(***************************************************************************)
(* Bounds of the model.                                                    *)
(***************************************************************************)
\* number of ParseStreamLine calls made on one shared counter
MaxCalls == 3

\* number of lines a subprocess writes on stdout
MaxLines == 2

\* number of entries the subprocesses create in the working directory
MaxEntries == 1

\* number of cancel requests handled at the same time
MaxCancels == 1

\* the clock runs from 0 to MaxNow days
MaxNow == 2

\* number of stream requests served
MaxStreams == 1

\* number of ClaimDir and ReleaseDir calls made by direct callers of the Store
MaxOps == 3

\* number of goroutines calling the Store's methods at the same time
MaxWorkers == 2

\* the most variables the process environment holds
MaxEnv == 3

(***************************************************************************)
(* Decoded JSON values (encoding/json into any): a tag and a payload.      *)
(***************************************************************************)
JS(s) == [t |-> "string", v |-> s]
JB(b) == [t |-> "bool", v |-> b]
JN(n) == [t |-> "number", v |-> n]
JA(a) == [t |-> "array", v |-> a]
JO(m) == [t |-> "object", v |-> m]
JNull == [t |-> "null", v |-> "null"]

\* the empty map[string]any
EmptyMap == [k \in {} |-> k]

\* a nil map[string]any, and a non-nil one holding m
NilMap == [isNil |-> TRUE, m |-> EmptyMap]
MapOf(m) == [isNil |-> FALSE, m |-> m]

\* a Go string held in a JSON value, as a token sequence
Str(s) == IF s = "" THEN << >> ELSE <<s>>

IsSpace(tok) == tok \in {" ", "\t", "\n", "\r"}

RECURSIVE TrimLeft(_)
TrimLeft(s) ==
    IF s = << >> THEN << >>
    ELSE IF IsSpace(Head(s)) THEN TrimLeft(Tail(s))
    ELSE s

RECURSIVE TrimRight(_)
TrimRight(s) ==
    IF s = << >> THEN << >>
    ELSE IF IsSpace(s[Len(s)]) THEN TrimRight(SubSeq(s, 1, Len(s) - 1))
    ELSE s

\* strings.TrimSpace
TrimSpace(s) == TrimRight(TrimLeft(s))

\* strings.Join(parts, sep) for a sequence of token sequences
RECURSIVE Join(_, _)
Join(parts, sep) ==
    IF parts = << >> THEN << >>
    ELSE IF Len(parts) = 1 THEN parts[1]
    ELSE parts[1] \o sep \o Join(Tail(parts), sep)

(***************************************************************************)
(* model.ParsedEvent and its zero value.                                   *)
(***************************************************************************)
ZeroEvent ==
    [Index |-> 0, Type |-> "", Subtype |-> "", Text |-> << >>,
     ToolName |-> "", ToolInput |-> NilMap, ToolResult |-> << >>,
     IsError |-> FALSE, Raw |-> NilMap]

(***************************************************************************)
(* internal/parser helpers.                                                *)
(***************************************************************************)
\* stringVal(m, key): ("", false) when the key is absent or not a string
stringVal(m, key) ==
    IF key \in DOMAIN m /\ m[key].t = "string"
    THEN [s |-> m[key].v, ok |-> TRUE]
    ELSE [s |-> "", ok |-> FALSE]

\* boolVal(m, key): (false, false) when the key is absent or not a bool
boolVal(m, key) ==
    IF key \in DOMAIN m /\ m[key].t = "bool"
    THEN [b |-> m[key].v, ok |-> TRUE]
    ELSE [b |-> FALSE, ok |-> FALSE]

\* emit without the "- 1": stamps the value after the increment
emit_offByOne(counter, evt) ==
    [evt |-> [evt EXCEPT !.Index = counter + 1], counter |-> counter + 1]

\* emit(counter, evt): evt.Index = counter.Add(1) - 1.  counter is the value
\* behind the pointer, the result carries the stamped event and the new value.
emit(counter, evt) ==
    [evt |-> [evt EXCEPT !.Index = counter], counter |-> counter + 1]

\* one emitted event as ParseStreamLine's result
One(r) == [events |-> <<r.evt>>, counter |-> r.counter]

\* a filtered input that takes an index all the same
Filtered_consumesIndex(counter) == [events |-> << >>, counter |-> counter + 1]

\* the "return nil" of a filtered input
Filtered(counter) == [events |-> << >>, counter |-> counter]

\* extractContentBlocks: data["message"]["content"] when it is a list, else nil
extractContentBlocks(data) ==
    IF "message" \notin DOMAIN data THEN << >>
    ELSE IF data["message"].t # "object" THEN << >>
    ELSE IF "content" \notin DOMAIN data["message"].v THEN << >>
    ELSE IF data["message"].v["content"].t # "array" THEN << >>
    ELSE data["message"].v["content"].v

\* the loop of extractToolResultContent over the list items
RECURSIVE toolResultParts(_)
toolResultParts(list) ==
    IF list = << >> THEN << >>
    ELSE LET item == Head(list)
             rest == toolResultParts(Tail(list))
         IN  IF item.t # "object" THEN rest
             ELSE IF stringVal(item.v, "type").s # "text" THEN rest
             ELSE IF stringVal(item.v, "text").ok
                  THEN <<Str(item.v["text"].v)>> \o rest
                  ELSE rest

\* extractToolResultContent(block)
extractToolResultContent(block) ==
    IF "content" \notin DOMAIN block THEN << >>
    ELSE IF block["content"].t = "string" THEN Str(block["content"].v)
    ELSE IF block["content"].t # "array" THEN << >>
    ELSE Join(toolResultParts(block["content"].v), <<"\n">>)

\* extractResultText(data)
extractResultText(data) ==
    IF "result" \notin DOMAIN data THEN << >>
    ELSE IF data["result"].t = "string" THEN Str(data["result"].v)
    ELSE IF data["result"].t = "object" /\ stringVal(data["result"].v, "text").ok
         THEN Str(data["result"].v["text"].v)
    ELSE << >>

(***************************************************************************)
(* internal/parser: the type-specific parsers.  Each takes the decoded     *)
(* object and the counter's value and yields the events and the counter's  *)
(* value afterwards.                                                       *)
(***************************************************************************)
\* the loop of parseAssistantBlocks over the content blocks
RECURSIVE assistantLoop(_, _, _)
assistantLoop(blocks, events, counter) ==
    IF blocks = << >> THEN [events |-> events, counter |-> counter]
    ELSE LET rawBlock == Head(blocks)
             rest == Tail(blocks)
         IN  IF rawBlock.t # "object" THEN assistantLoop(rest, events, counter)
             ELSE LET block == rawBlock.v
                      blockType == stringVal(block, "type").s
                  IN  IF blockType = "text"
                      THEN LET r == emit(counter,
                                      [ZeroEvent EXCEPT
                                          !.Type = "assistant",
                                          !.Subtype = "text",
                                          !.Text = Str(stringVal(block, "text").s)])
                           IN  assistantLoop(rest, Append(events, r.evt), r.counter)
                      ELSE IF blockType = "tool_use"
                      THEN LET toolInput ==
                                   IF "input" \in DOMAIN block /\ block["input"].t = "object"
                                   THEN MapOf(block["input"].v)
                                   ELSE NilMap
                               r == emit(counter,
                                      [ZeroEvent EXCEPT
                                          !.Type = "assistant",
                                          !.Subtype = "tool_use",
                                          !.ToolName = stringVal(block, "name").s,
                                          !.ToolInput = toolInput])
                           IN  assistantLoop(rest, Append(events, r.evt), r.counter)
                      ELSE assistantLoop(rest, events, counter)

\* parseAssistantBlocks without the generic event for a content list that
\* yields nothing
parseAssistantBlocks_noFallback(data, counter) ==
    assistantLoop(extractContentBlocks(data), << >>, counter)

\* parseAssistantBlocks(data, counter)
parseAssistantBlocks(data, counter) ==
    LET blocks == extractContentBlocks(data)
        generic == One(emit(counter, [ZeroEvent EXCEPT !.Type = "assistant"]))
    IN  IF Len(blocks) = 0 THEN generic
        ELSE LET r == assistantLoop(blocks, << >>, counter)
             IN  IF Len(r.events) = 0 THEN generic ELSE r

\* the loop of parseUserBlocks over the content blocks
RECURSIVE userLoop(_, _, _)
userLoop(blocks, events, counter) ==
    IF blocks = << >> THEN [events |-> events, counter |-> counter]
    ELSE LET rawBlock == Head(blocks)
             rest == Tail(blocks)
         IN  IF rawBlock.t # "object" THEN userLoop(rest, events, counter)
             ELSE IF stringVal(rawBlock.v, "type").s # "tool_result"
                  THEN userLoop(rest, events, counter)
             ELSE LET block == rawBlock.v
                      r == emit(counter,
                             [ZeroEvent EXCEPT
                                 !.Type = "user",
                                 !.Subtype = "tool_result",
                                 !.ToolResult = extractToolResultContent(block),
                                 !.IsError = boolVal(block, "is_error").b])
                  IN  userLoop(rest, Append(events, r.evt), r.counter)

\* parseUserBlocks(data, counter)
parseUserBlocks(data, counter) ==
    LET blocks == extractContentBlocks(data)
        generic == One(emit(counter, [ZeroEvent EXCEPT !.Type = "user"]))
    IN  IF Len(blocks) = 0 THEN generic
        ELSE LET r == userLoop(blocks, << >>, counter)
             IN  IF Len(r.events) = 0 THEN generic ELSE r

\* parseResult(data, counter)
parseResult(data, counter) ==
    One(emit(counter,
             [ZeroEvent EXCEPT
                 !.Type = "result",
                 !.Text = extractResultText(data),
                 !.IsError = boolVal(data, "is_error").b,
                 !.Raw = MapOf(data)]))

\* parseStreamEvent(data, counter)
parseStreamEvent(data, counter) ==
    IF "event" \notin DOMAIN data THEN Filtered(counter)
    ELSE IF data["event"].t # "object" THEN Filtered(counter)
    ELSE LET event == data["event"].v
             eventType == stringVal(event, "type").s
         IN  IF eventType \in {"ping", "message_stop"} THEN Filtered(counter)
             ELSE IF eventType = "content_block_delta"
             THEN IF ~("delta" \in DOMAIN event /\ event["delta"].t = "object")
                  THEN Filtered(counter)
                  ELSE IF stringVal(event["delta"].v, "type").s # "text_delta"
                  THEN Filtered(counter)
                  ELSE One(emit(counter,
                                [ZeroEvent EXCEPT
                                    !.Type = "assistant",
                                    !.Subtype = "text_delta",
                                    !.Text = Str(stringVal(event["delta"].v, "text").s)]))
             ELSE IF eventType = "content_block_start"
             THEN IF ~("content_block" \in DOMAIN event /\ event["content_block"].t = "object")
                  THEN Filtered(counter)
                  ELSE IF stringVal(event["content_block"].v, "type").s # "tool_use"
                  THEN Filtered(counter)
                  ELSE One(emit(counter,
                                [ZeroEvent EXCEPT
                                    !.Type = "assistant",
                                    !.Subtype = "tool_start",
                                    !.ToolName = stringVal(event["content_block"].v, "name").s]))
             ELSE Filtered(counter)

(***************************************************************************)
(* encoding/json on the texts the subprocess can write.  Docs lists the    *)
(* texts that are well-formed JSON with the value each decodes to; every   *)
(* other text is malformed.                                                *)
(***************************************************************************)
Docs ==
    << [text |-> "{\"type\":\"system\",\"subtype\":\"init\",\"session_id\":\"sess-1\"}",
        val |-> JO([type |-> JS("system"), subtype |-> JS("init"),
                    session_id |-> JS("sess-1")])],
       [text |-> "{\"type\":\"system\"}",
        val |-> JO([type |-> JS("system")])],
       [text |-> "{\"type\":\"assistant\",\"message\":{\"content\":[{\"type\":\"text\",\"text\":\"hi\"},{\"type\":\"image\"},{\"type\":\"tool_use\",\"name\":\"Read\",\"input\":{\"path\":\"a\"}}]}}",
        val |-> JO([type |-> JS("assistant"),
                    message |-> JO([content |-> JA(<<
                        JO([type |-> JS("text"), text |-> JS("hi")]),
                        JO([type |-> JS("image")]),
                        JO([type |-> JS("tool_use"), name |-> JS("Read"),
                            input |-> JO([path |-> JS("a")])]) >>)])])],
       [text |-> "{\"type\":\"assistant\"}",
        val |-> JO([type |-> JS("assistant")])],
       [text |-> "{\"type\":\"assistant\",\"message\":{\"content\":[{\"type\":\"image\"},7]}}",
        val |-> JO([type |-> JS("assistant"),
                    message |-> JO([content |-> JA(<<
                        JO([type |-> JS("image")]), JN(7) >>)])])],
       [text |-> "{\"type\":\"user\",\"message\":{\"content\":[{\"type\":\"tool_result\",\"content\":\"out\",\"is_error\":true},{\"type\":\"tool_result\",\"content\":[{\"type\":\"text\",\"text\":\"a\"},{\"type\":\"image\"},{\"type\":\"text\",\"text\":\"b\"}]}]}}",
        val |-> JO([type |-> JS("user"),
                    message |-> JO([content |-> JA(<<
                        JO([type |-> JS("tool_result"), content |-> JS("out"),
                            is_error |-> JB(TRUE)]),
                        JO([type |-> JS("tool_result"),
                            content |-> JA(<<
                                JO([type |-> JS("text"), text |-> JS("a")]),
                                JO([type |-> JS("image")]),
                                JO([type |-> JS("text"), text |-> JS("b")]) >>)]) >>)])])],
       [text |-> "{\"type\":\"user\",\"message\":{\"content\":\"plain\"}}",
        val |-> JO([type |-> JS("user"),
                    message |-> JO([content |-> JS("plain")])])],
       [text |-> "{\"type\":\"result\",\"result\":\"ok\",\"is_error\":false}",
        val |-> JO([type |-> JS("result"), result |-> JS("ok"),
                    is_error |-> JB(FALSE)])],
       [text |-> "{\"type\":\"result\",\"result\":{\"text\":\"bad\"},\"is_error\":true}",
        val |-> JO([type |-> JS("result"), result |-> JO([text |-> JS("bad")]),
                    is_error |-> JB(TRUE)])],
       [text |-> "{\"type\":\"stream_event\",\"event\":{\"type\":\"ping\"}}",
        val |-> JO([type |-> JS("stream_event"),
                    event |-> JO([type |-> JS("ping")])])],
       [text |-> "{\"type\":\"stream_event\",\"event\":{\"type\":\"message_stop\"}}",
        val |-> JO([type |-> JS("stream_event"),
                    event |-> JO([type |-> JS("message_stop")])])],
       [text |-> "{\"type\":\"stream_event\",\"event\":{\"type\":\"message_start\"}}",
        val |-> JO([type |-> JS("stream_event"),
                    event |-> JO([type |-> JS("message_start")])])],
       [text |-> "{\"type\":\"stream_event\",\"event\":{\"type\":\"content_block_delta\",\"delta\":{\"type\":\"text_delta\",\"text\":\"he\"}}}",
        val |-> JO([type |-> JS("stream_event"),
                    event |-> JO([type |-> JS("content_block_delta"),
                                  delta |-> JO([type |-> JS("text_delta"),
                                                text |-> JS("he")])])])],
       [text |-> "{\"type\":\"stream_event\",\"event\":{\"type\":\"content_block_delta\",\"delta\":{\"type\":\"input_json_delta\"}}}",
        val |-> JO([type |-> JS("stream_event"),
                    event |-> JO([type |-> JS("content_block_delta"),
                                  delta |-> JO([type |-> JS("input_json_delta")])])])],
       [text |-> "{\"type\":\"stream_event\",\"event\":{\"type\":\"content_block_delta\"}}",
        val |-> JO([type |-> JS("stream_event"),
                    event |-> JO([type |-> JS("content_block_delta")])])],
       [text |-> "{\"type\":\"stream_event\",\"event\":{\"type\":\"content_block_start\",\"content_block\":{\"type\":\"tool_use\",\"name\":\"Grep\"}}}",
        val |-> JO([type |-> JS("stream_event"),
                    event |-> JO([type |-> JS("content_block_start"),
                                  content_block |-> JO([type |-> JS("tool_use"),
                                                        name |-> JS("Grep")])])])],
       [text |-> "{\"type\":\"stream_event\",\"event\":{\"type\":\"content_block_start\",\"content_block\":{\"type\":\"text\"}}}",
        val |-> JO([type |-> JS("stream_event"),
                    event |-> JO([type |-> JS("content_block_start"),
                                  content_block |-> JO([type |-> JS("text")])])])],
       [text |-> "{\"type\":\"stream_event\",\"event\":{\"type\":\"content_block_start\",\"content_block\":5}}",
        val |-> JO([type |-> JS("stream_event"),
                    event |-> JO([type |-> JS("content_block_start"),
                                  content_block |-> JN(5)])])],
       [text |-> "{\"type\":\"stream_event\"}",
        val |-> JO([type |-> JS("stream_event")])],
       [text |-> "{\"type\":\"stream_event\",\"event\":\"ping\"}",
        val |-> JO([type |-> JS("stream_event"), event |-> JS("ping")])],
       [text |-> "{\"foo\":1}",
        val |-> JO([foo |-> JN(1)])],
       [text |-> "{\"type\":\"telemetry\"}",
        val |-> JO([type |-> JS("telemetry")])],
       [text |-> "null", val |-> JNull],
       [text |-> "[1,2]", val |-> JA(<<JN(1), JN(2)>>)],
       [text |-> "{\"type\":\"assistant\",\"message\":{\"content\":[]}}",
        val |-> JO([type |-> JS("assistant"),
                    message |-> JO([content |-> JA(<< >>)])])],
       [text |-> "{\"type\":\"system\",\"subtype\":\"status\",\"session_id\":\"sess-2\"}",
        val |-> JO([type |-> JS("system"), subtype |-> JS("status"),
                    session_id |-> JS("sess-2")])] >>

\* a text that is not JSON at all
Garbage == "not json"

DocTexts == {Docs[i].text : i \in 1..Len(Docs)}

DocOf(text) == Docs[CHOOSE i \in 1..Len(Docs) : Docs[i].text = text].val

\* json.Unmarshal([]byte(trimmed), &data) with data a nil map[string]any:
\* an object fills the map, the literal null leaves it nil, anything else
\* (another JSON value, malformed text) is an error.
Unmarshal(trimmed) ==
    IF Len(trimmed) = 1 /\ trimmed[1] \in DocTexts
    THEN LET val == DocOf(trimmed[1])
         IN  IF val.t = "object" THEN [err |-> FALSE, data |-> MapOf(val.v)]
             ELSE IF val.t = "null" THEN [err |-> FALSE, data |-> NilMap]
             ELSE [err |-> TRUE, data |-> NilMap]
    ELSE [err |-> TRUE, data |-> NilMap]

\* ParseStreamLine(line, counter)
ParseStreamLine(line, counter) ==
    LET trimmed == TrimSpace(line)
    IN  IF trimmed = << >> THEN Filtered(counter)
        ELSE LET dec == Unmarshal(trimmed)
             IN  IF dec.err
                 THEN One(emit(counter, [ZeroEvent EXCEPT !.Type = "raw",
                                                          !.Text = trimmed]))
                 ELSE IF dec.data.isNil
                 THEN One(emit(counter, [ZeroEvent EXCEPT !.Type = "raw"]))
                 ELSE LET data == dec.data.m
                          evtType == stringVal(data, "type").s
                      IN  IF evtType = "system"
                          THEN LET subtype == stringVal(data, "subtype").s
                               IN  One(emit(counter,
                                        [ZeroEvent EXCEPT
                                            !.Type = "system",
                                            !.Text = Str(IF subtype = "" THEN "init"
                                                         ELSE subtype),
                                            !.Raw = MapOf(data)]))
                          ELSE IF evtType = "assistant"
                          THEN parseAssistantBlocks(data, counter)
                          ELSE IF evtType = "user"
                          THEN parseUserBlocks(data, counter)
                          ELSE IF evtType = "result"
                          THEN parseResult(data, counter)
                          ELSE IF evtType = "stream_event"
                          THEN parseStreamEvent(data, counter)
                          ELSE One(emit(counter, [ZeroEvent EXCEPT !.Type = "raw",
                                                                   !.Raw = MapOf(data)]))

\* the lines fed to the parser: every JSON text, a malformed text, blank
\* lines, and lines with surrounding whitespace
Lines ==
    {<<t>> : t \in DocTexts}
    \cup { <<Garbage>>, << >>, <<" ">>, <<"\t", " ">>,
           <<" ", Garbage, "\n">>,
           <<" ", "{\"type\":\"system\"}", "\r">> }

(***************************************************************************)
(* internal/model: request validation.                                     *)
(***************************************************************************)
\* ValidModel(name)
ValidModel(name) == name \in {"opus", "sonnet", "haiku"}

\* Validate that lets a turn budget of zero through
Validate_allowsZeroTurns(req) ==
    IF req.Query = "" THEN "query is required"
    ELSE IF ~ValidModel(req.Model) THEN "invalid model"
    ELSE IF req.MaxTurns < 0 THEN "max_turns must be positive"
    ELSE ""

\* ResearchRequest.Validate(): "" when the request is well-formed
Validate(req) ==
    IF req.Query = "" THEN "query is required"
    ELSE IF ~ValidModel(req.Model) THEN "invalid model"
    ELSE IF req.MaxTurns <= 0 THEN "max_turns must be positive"
    ELSE ""

\* the request bodies a client can post
Requests == [Query : {"", "why"}, Model : {"opus", "gpt"}, MaxTurns : {0, 10}]

(***************************************************************************)
(* internal/jobstore and internal/runner: constants and pure helpers.      *)
(***************************************************************************)
Terminal == {"completed", "failed", "cancelled"}

\* model.ResearchDirPrefix
ResearchDirPrefix == "research-"

\* maxJobAge of the server (24 hours), in days: the unit of the model's clock
maxJobAge == 1

\* the identifiers generateID hands out
JobIds == {"j1"}

\* the entries a subprocess creates in the working directory, in the order
\* it creates them: a name is a token sequence whose first token is its
\* first nine characters
Entries ==
    << [name |-> <<"research-", "a">>, isDir |-> TRUE],
       [name |-> <<"notes">>, isDir |-> TRUE],
       [name |-> <<"research-", "b.md">>, isDir |-> FALSE],
       [name |-> <<"research-", "c">>, isDir |-> TRUE] >>

\* the research-* directories among them: the paths that are claimed and
\* released
Paths == {Entries[1].name, Entries[4].name}

\* the output a subprocess can write on stdout, line by line
RunLines ==
    { <<"{\"type\":\"result\",\"result\":\"ok\",\"is_error\":false}">>,
      <<"{\"type\":\"result\",\"result\":{\"text\":\"bad\"},\"is_error\":true}">>,
      <<"{\"type\":\"system\",\"subtype\":\"init\",\"session_id\":\"sess-1\"}">>,
      <<"{\"type\":\"system\",\"subtype\":\"status\",\"session_id\":\"sess-2\"}">> }

\* what a subprocess can have written on stderr when it exits
Stderrs == { << >>, <<" ", "\n">>, <<"fatal error", "\n">> }

\* what cmd.Wait() can return: nil, an *exec.ExitError carrying an exit code,
\* or another error (a wait-delay or I/O error)
WaitErrs ==
    { [kind |-> "nil", code |-> 0],
      [kind |-> "ExitError", code |-> 2],
      [kind |-> "other", code |-> 0] }

\* strings.HasPrefix(name, prefix) on a name whose first token is nine characters
HasPrefix(name, prefix) == Len(name) >= 1 /\ name[1] = prefix

\* researchDirs(dir): the research-* subdirectories with their modification times
researchDirs(files) ==
    LET keep == {n \in DOMAIN files :
                    files[n].isDir /\ HasPrefix(n, ResearchDirPrefix)}
    IN  [n \in keep |-> files[n].mtime]

\* candidates sorted oldest first
newCandidates_oldestFirst(pre, post) ==
    LET new == {p \in DOMAIN post : p \notin DOMAIN pre}
        n == Cardinality(new)
    IN  {s \in [1..n -> new] :
            /\ \A a, b \in 1..n : a # b => s[a] # s[b]
            /\ \A a, b \in 1..n : a < b => post[s[a]] <= post[s[b]]}

\* candidates taken from the post-run snapshot without the diff
newCandidates_noDiff(pre, post) ==
    LET new == DOMAIN post
        n == Cardinality(new)
    IN  {s \in [1..n -> new] :
            /\ \A a, b \in 1..n : a # b => s[a] # s[b]
            /\ \A a, b \in 1..n : a < b => post[s[a]] >= post[s[b]]}

\* detectNewOutputDir, first half: the paths present after the run and not
\* before, in an order sort.Slice can leave them in (newest first; the order
\* of equal modification times is not determined)
newCandidates(pre, post) ==
    LET new == {p \in DOMAIN post : p \notin DOMAIN pre}
        n == Cardinality(new)
    IN  {s \in [1..n -> new] :
            /\ \A a, b \in 1..n : a # b => s[a] # s[b]
            /\ \A a, b \in 1..n : a < b => post[s[a]] >= post[s[b]]}

None == [some |-> FALSE, v |-> 0]
NoString == [some |-> FALSE, v |-> ""]
Some(x) == [some |-> TRUE, v |-> x]

\* toFloat64(v) and toInt(v) on a decoded JSON value (the model's JSON numbers
\* are integral)
toFloat64(v) == IF v.t = "number" THEN Some(v.v) ELSE None
toInt(v) == IF v.t = "number" THEN Some(v.v) ELSE None

\* the zero model.ResultStats
ZeroResultStats ==
    [CostUSD |-> None, DurationMS |-> None, DurationAPIMS |-> None,
     NumTurns |-> None, SessionID |-> NoString, Usage |-> NilMap]

\* extractResultStats(raw)
extractResultStats(raw) ==
    [CostUSD |->
        IF "total_cost_usd" \in DOMAIN raw THEN toFloat64(raw["total_cost_usd"])
        ELSE IF "cost_usd" \in DOMAIN raw THEN toFloat64(raw["cost_usd"])
        ELSE None,
     DurationMS |->
        IF "duration_ms" \in DOMAIN raw THEN toInt(raw["duration_ms"]) ELSE None,
     DurationAPIMS |->
        IF "duration_api_ms" \in DOMAIN raw THEN toInt(raw["duration_api_ms"])
        ELSE None,
     NumTurns |->
        IF "num_turns" \in DOMAIN raw THEN toInt(raw["num_turns"]) ELSE None,
     SessionID |->
        IF stringVal(raw, "session_id").ok /\ stringVal(raw, "session_id").s # ""
        THEN Some(stringVal(raw, "session_id").s)
        ELSE NoString,
     Usage |->
        IF "usage" \in DOMAIN raw /\ raw["usage"].t = "object"
           /\ DOMAIN raw["usage"].v # {}
        THEN MapOf(raw["usage"].v)
        ELSE NilMap]

\* the exit code Run derives from cmd.Wait()'s error
exitCodeOf(waitErr) ==
    IF waitErr.kind = "nil" THEN 0
    ELSE IF waitErr.kind = "ExitError" THEN waitErr.code
    ELSE -1

\* fmt.Sprintf("%d", n) for the exit codes above
Itoa(n) == IF n < 0 THEN <<"-", "1">> ELSE IF n = 0 THEN <<"0">> ELSE <<"2">>

\* the failure message without the fallback for an empty stderr
failureMessage_noFallback(stderr, exitCode) == TrimSpace(stderr)

\* the error message Run records on a failed job
failureMessage(stderr, exitCode) ==
    LET errMsg == TrimSpace(stderr)
    IN  IF errMsg = << >>
        THEN <<"subprocess exited with code ">> \o Itoa(exitCode)
        ELSE errMsg

\* Run's test for success
runSucceeded(exitCode, gotResult, resultIsError) ==
    exitCode = 0 \/ (gotResult /\ ~resultIsError)

\* ToStatus counting every assistant event as a turn
ToStatus_countsAssistant(rec) ==
    [status |-> rec.status,
     output_dir |-> rec.outputDir,
     output_lines |-> Len(rec.events),
     num_turns |-> Cardinality({i \in 1..Len(rec.events) :
                                   rec.events[i].Type = "assistant"})]

\* the loop of ToStatus over j.events: the events of type assistant and
\* subtype text, counted
RECURSIVE numTurns(_)
numTurns(events) ==
    IF events = << >> THEN 0
    ELSE (IF Head(events).Type = "assistant" /\ Head(events).Subtype = "text"
          THEN 1 ELSE 0) + numTurns(Tail(events))

\* Job.ToStatus(): the status, the output directory ("" standing for nil),
\* the number of events and the number of turns, read under one lock
ToStatus(rec) ==
    [status |-> rec.status,
     output_dir |-> rec.outputDir,
     output_lines |-> Len(rec.events),
     num_turns |-> numTurns(rec.events)]

\* a Get that finds every identifier
Get_findsAll(registered, id) == [ok |-> TRUE, ref |-> id]

\* Store.Get(id) on the registry: whether id is registered, and the record
\* returned, named by its identifier ("" for nil)
Get(registered, id) ==
    IF id \in registered THEN [ok |-> TRUE, ref |-> id]
    ELSE [ok |-> FALSE, ref |-> ""]

\* Store.Delete(id) on the registry
Delete(registered, id) == registered \ {id}

\* ClaimDir that does not look at the ledger
ClaimDir_noTest(ledger, dir) == [ok |-> TRUE, ledger |-> ledger \cup {dir}]

\* Store.ClaimDir(dir) on the ledger: whether the claim succeeded, and the
\* ledger it leaves
ClaimDir(ledger, dir) ==
    IF dir \in ledger THEN [ok |-> FALSE, ledger |-> ledger]
    ELSE [ok |-> TRUE, ledger |-> ledger \cup {dir}]

\* ReleaseDir that deletes nothing
ReleaseDir_keeps(ledger, dir) == ledger

\* Store.ReleaseDir(dir) on the ledger
ReleaseDir(ledger, dir) == ledger \ {dir}

\* AddEvent that stores the event over the last one
AddEvent_overLast(events, evt) ==
    IF events = << >> THEN <<evt>>
    ELSE [events EXCEPT ![Len(events)] = evt]

\* Job.AddEvent(evt) on the log
AddEvent(events, evt) == Append(events, evt)

\* EventsSince starting one position late
EventsSince_skipsOne(events, cursor) ==
    LET c == IF cursor < 0 THEN 0 ELSE cursor
    IN  IF c + 1 >= Len(events) THEN << >>
        ELSE SubSeq(events, c + 2, Len(events))

\* Job.EventsSince(cursor) on the log: a copy of the events from position
\* cursor (counted from zero) on, a negative cursor being taken as zero
EventsSince(events, cursor) ==
    LET c == IF cursor < 0 THEN 0 ELSE cursor
    IN  IF c >= Len(events) THEN << >>
        ELSE SubSeq(events, c + 1, Len(events))

\* the values of the "after" query parameter a client sends
AfterParams == {"", "-1", "1", "x"}

\* strconv.Atoi(v) with its error dropped
Atoi(v) == IF v = "-1" THEN -1 ELSE IF v = "1" THEN 1 ELSE 0

\* the cursor a stream starts from: 0 unless the parameter is given
afterOf(v) == IF v # "" THEN Atoi(v) ELSE 0

\* the server-sent event written for one event of the log
EventMessage(evt) == [event |-> "message", index |-> evt.Index, type |-> evt.Type]

\* the sentinel: event "done" with the status and the output directory
DoneMessage(status, outputDir) ==
    [event |-> "done", status |-> status, output_dir |-> outputDir]

\* a sweep that removes a job as soon as its age reaches maxAge
CleanupExpired_atMaxAge(registered, records, clock, maxAge) ==
    {id \in registered :
        ~(records[id].status \in Terminal /\ clock - records[id].createdAt >= maxAge)}

\* Store.CleanupExpired(maxAge): the identifiers that stay registered
CleanupExpired(registered, records, clock, maxAge) ==
    {id \in registered :
        ~(records[id].status \in Terminal /\ clock - records[id].createdAt > maxAge)}

(***************************************************************************)
(* internal/envutil.  The process environment is the list os.Environ()    *)
(* returns: one entry per variable, in the order the variables were set.  *)
(* A key is a token sequence, so that a prefix is its first token.        *)
(***************************************************************************)
MaxKey == <<"MAX_API_KEY">>
AnthropicKey == <<"ANTHROPIC_API_KEY">>

EnvKeys ==
    { <<"PATH">>, <<"CLAUDE", "_CODE">>, <<"claude", "_x">>, MaxKey, AnthropicKey }

EnvValues == {"", "k1", "k2"}

EnvEntry(key, value) == [key |-> key, value |-> value]

\* os.Getenv: the variable's value, "" when it is not set
Getenv(env, key) ==
    IF \E i \in 1..Len(env) : env[i].key = key
    THEN env[CHOOSE i \in 1..Len(env) : env[i].key = key].value
    ELSE ""

\* os.Setenv: the variable's entry is replaced in place, a new one is appended
Setenv(env, key, value) ==
    IF \E i \in 1..Len(env) : env[i].key = key
    THEN [i \in 1..Len(env) |->
             IF env[i].key = key THEN EnvEntry(key, value) ELSE env[i]]
    ELSE Append(env, EnvEntry(key, value))

\* os.Unsetenv
Unsetenv(env, key) ==
    LET Other(e) == e.key # key IN SelectSeq(env, Other)

ResolvedAPIKey(env) ==
    IF Getenv(env, MaxKey) # "" THEN Getenv(env, MaxKey)
    ELSE Getenv(env, AnthropicKey)

\* FilteredEnv whose loop lets the ANTHROPIC_API_KEY entry through
FilteredEnv_keepsOriginal(env) ==
    LET Kept(e) == ~HasPrefix(e.key, "CLAUDE") /\ e.key # MaxKey
        result == SelectSeq(env, Kept)
    IN  IF ResolvedAPIKey(env) # ""
        THEN Append(result, EnvEntry(AnthropicKey, ResolvedAPIKey(env)))
        ELSE result

FilteredEnv(env) ==
    LET Kept(e) == /\ ~HasPrefix(e.key, "CLAUDE")
                   /\ e.key # MaxKey
                   /\ e.key # AnthropicKey
        result == SelectSeq(env, Kept)
    IN  IF ResolvedAPIKey(env) # ""
        THEN Append(result, EnvEntry(AnthropicKey, ResolvedAPIKey(env)))
        ELSE result

(***************************************************************************)
(* State.                                                                  *)
(***************************************************************************)
VARIABLES
    pcounter,    \* the counter shared by a sequence of ParseStreamLine calls
    pemitted,    \* the events those calls emitted, in emission order
    pcalls,      \* the number of calls made
    pline,       \* the line given to the last call
    pbefore,     \* the counter's value when the last call was made
    plast,       \* the events the last call returned
    jobs,        \* Store.jobs: the registered identifiers
    claimedDirs, \* Store.claimedDirs
    job,         \* the Job records ever created, by identifier
    run,         \* the Runner goroutine of each job: its position and locals
    files,       \* the entries of the working directory
    now,         \* the wall clock
    creq,        \* the handlers of cancel requests, each with its position
    strm,        \* the handlers of stream requests: position, cursor, output
    srvCtx,      \* the server's lifetime context
    oplog,       \* the calls direct callers have made, in order
    smu,         \* Store.mu: the goroutine holding it for writing, those reading
    wk,          \* the goroutines calling Store methods: method and position
    jmu,         \* Job.mu of each job: its writer and its readers
    environ,     \* the process environment
    filtered     \* FilteredEnv's call on this environment, if one was made

pvars == <<pcounter, pemitted, pcalls, pline, pbefore, plast>>

svars == <<jobs, claimedDirs, job, run, files, now, creq>>

\* the state of the stream handlers and of the direct callers of the ledger
xvars == <<strm, srvCtx, oplog>>

\* Store.mu and the goroutines that take it
lvars == <<smu, wk, jmu>>

\* the process environment and what FilteredEnv made of it
evars == <<environ, filtered>>

vars == <<pcounter, pemitted, pcalls, pline, pbefore, plast,
          jobs, claimedDirs, job, run, files, now, creq,
          strm, srvCtx, oplog, smu, wk, jmu, environ, filtered>>

ParserInit ==
    /\ pcounter = 0
    /\ pemitted = << >>
    /\ pcalls = 0
    /\ pline = << >>
    /\ pbefore = 0
    /\ plast = << >>

\* a cancel handler that is not serving a request
IdleHandler == [id |-> "", pc |-> "idle"]

\* NewStore(), an empty working directory, no request received
ServerInit ==
    /\ jobs = {}
    /\ claimedDirs = {}
    /\ job = EmptyMap
    /\ run = EmptyMap
    /\ files = EmptyMap
    /\ now = 0
    /\ creq = [i \in 1..MaxCancels |-> IdleHandler]

\* a stream handler that is not serving a request
IdleStream ==
    [pc |-> "idle", id |-> "", after |-> 0, cursor |-> 0, sent |-> << >>,
     ctx |-> "live", status |-> ""]

\* no stream request received, the server's context live, no direct call made
StreamInit ==
    /\ strm = [s \in 1..MaxStreams |-> IdleStream]
    /\ srvCtx = "live"
    /\ oplog = << >>

\* a goroutine that is in no Store method
IdleWorker == [pc |-> "idle", op |-> "", id |-> "", seen |-> {}]

\* a mutex nobody holds
FreeMutex == [writer |-> 0, readers |-> {}]

\* Store.mu and every Job.mu free, no goroutine in a Store or Job method
LockInit ==
    /\ smu = FreeMutex
    /\ jmu = [j \in JobIds |-> FreeMutex]
    /\ wk = [w \in 1..MaxWorkers |-> IdleWorker]

\* FilteredEnv not called yet
NotFiltered == [called |-> FALSE, env |-> << >>, out |-> << >>]

\* an empty environment
EnvInit ==
    /\ environ = << >>
    /\ filtered = NotFiltered

Init == ParserInit /\ ServerInit /\ StreamInit /\ LockInit /\ EnvInit

\* one call of ParseStreamLine on the shared counter
ParseCall ==
    /\ pcalls < MaxCalls
    /\ \E line \in Lines :
          LET r == ParseStreamLine(line, pcounter)
          IN  /\ pemitted' = pemitted \o r.events
              /\ pcounter' = r.counter
              /\ pline' = line
              /\ plast' = r.events
    /\ pbefore' = pcounter
    /\ pcalls' = pcalls + 1
    /\ UNCHANGED <<svars, xvars, lvars, evars>>

(***************************************************************************)
(* The Job record Store.Create builds and the locals of a Run that has not *)
(* started.                                                                *)
(***************************************************************************)
NewJob(req, clock) ==
    [query |-> req.Query, model |-> req.Model, maxTurns |-> req.MaxTurns,
     status |-> "pending", createdAt |-> clock, events |-> << >>,
     outputDir |-> << >>, errMsg |-> << >>, sessionID |-> "",
     resultInfo |-> ZeroResultStats]

NewRun ==
    [pc |-> "spawned", preDirs |-> EmptyMap, counter |-> 0, nlines |-> 0,
     pending |-> << >>, gotResult |-> FALSE, resultIsError |-> FALSE,
     waitErr |-> [kind |-> "nil", code |-> 0],
     exitCode |-> 0, postDirs |-> EmptyMap, candidates |-> << >>,
     newDir |-> << >>,
     ctx |-> "background", signalled |-> FALSE,
     ret |-> "", logged |-> ""]

\* a Run that has returned: what it returned and the last message it logged
Returned(ret, logged) ==
    [NewRun EXCEPT !.pc = "done", !.ret = ret, !.logged = logged]

(***************************************************************************)
(* internal/server: POST /research.                                        *)
(***************************************************************************)
\* handleStartResearch on a request that fails validation: 400, nothing created
StartResearchRejected ==
    /\ {req \in Requests : Validate(req) # ""} # {}
    /\ UNCHANGED vars

\* handleStartResearch on a valid request: sweep, Store.Create under a fresh
\* identifier, and the goroutine that will call Runner.Run
StartResearch ==
    /\ \E req \in Requests, id \in JobIds \ DOMAIN job :
          /\ Validate(req) = ""
          /\ jobs' = CleanupExpired(jobs, job, now, maxJobAge) \cup {id}
          /\ job' = job @@ (id :> NewJob(req, now))
          /\ run' = run @@ (id :> NewRun)
    /\ UNCHANGED <<pvars, evars, lvars, xvars, claimedDirs, files, now, creq>>

\* one recorded POST /research: the request, the response code, and the
\* registry, the job records, the started runs and the ledger before and
\* after it
Post(req, code) ==
    [op |-> "POST /research", req |-> req, code |-> code,
     reg |-> jobs, regLeft |-> jobs',
     recs |-> DOMAIN job, recsLeft |-> DOMAIN job',
     runs |-> DOMAIN run, runsLeft |-> DOMAIN run',
     held |-> claimedDirs, heldLeft |-> claimedDirs']

\* handleStartResearch on any request of a client that keeps its responses:
\* 400 when Validate fails, else the sweep, Store.Create, the goroutine that
\* will call Runner.Run, and 201
PostResearch(req) ==
    /\ Len(oplog) < MaxOps
    /\ UNCHANGED <<pvars, evars, lvars, strm, srvCtx, claimedDirs, files, now, creq>>
    /\ IF Validate(req) # ""
       THEN /\ UNCHANGED <<jobs, job, run>>
            /\ oplog' = Append(oplog, Post(req, 400))
       ELSE /\ \E id \in JobIds \ DOMAIN job :
                  /\ jobs' = CleanupExpired(jobs, job, now, maxJobAge) \cup {id}
                  /\ job' = job @@ (id :> NewJob(req, now))
                  /\ run' = run @@ (id :> NewRun)
            /\ oplog' = Append(oplog, Post(req, 201))

\* the identifiers generateID hands out to submissions that share the
\* server's working directory
SharedIds == {"j1", "j2"}

\* handleStartResearch on a valid request that names no working directory of
\* its own: the job runs in s.cwd, as every such job does
StartShared ==
    /\ \E req \in Requests, id \in SharedIds \ DOMAIN job :
          /\ Validate(req) = ""
          /\ jobs' = CleanupExpired(jobs, job, now, maxJobAge) \cup {id}
          /\ job' = job @@ (id :> NewJob(req, now))
          /\ run' = run @@ (id :> NewRun)
    /\ UNCHANGED <<pvars, evars, lvars, xvars, claimedDirs, files, now, creq>>

(***************************************************************************)
(* internal/runner: Runner.Run(ctx, job, store), step by step.  run[j].ctx *)
(* is the context Run was given: "background" for context.Background(),    *)
(* which the server passes, "live" or "cancelled" for a context the caller *)
(* can cancel.                                                             *)
(***************************************************************************)
\* ctx.Done() is closed
ctxDone(ctx) == ctx = "cancelled"

\* job.SetStatus(model.StatusRunning)
RunSetRunning(j) ==
    /\ j \in DOMAIN run
    /\ run[j].pc = "spawned"
    /\ job' = [job EXCEPT ![j].status = "running"]
    /\ run' = [run EXCEPT ![j].pc = "setup"]
    /\ UNCHANGED <<pvars, evars, lvars, xvars, jobs, claimedDirs, files, now, creq>>

\* the pre-run snapshot, then cmd.StdoutPipe() fails: Run returns the error
RunPipeFails(j) ==
    /\ j \in DOMAIN run
    /\ run[j].pc = "setup"
    /\ run' = [run EXCEPT ![j] = Returned("stdout pipe error", "")]
    /\ UNCHANGED <<pvars, evars, lvars, xvars, jobs, claimedDirs, job, files, now, creq>>

\* the pre-run snapshot, then cmd.Start() fails (as it does when ctx is done
\* already): Run returns the error
RunStartFails(j) ==
    /\ j \in DOMAIN run
    /\ run[j].pc = "setup"
    /\ run' = [run EXCEPT ![j] = Returned("start error", "")]
    /\ UNCHANGED <<pvars, evars, lvars, xvars, jobs, claimedDirs, job, files, now, creq>>

\* the pre-run snapshot, then the subprocess starts and Run reads its stdout
RunStarts(j) ==
    /\ j \in DOMAIN run
    /\ run[j].pc = "setup"
    /\ ~ctxDone(run[j].ctx)
    /\ run' = [run EXCEPT ![j].pc = "reading",
                          ![j].preDirs = researchDirs(files)]
    /\ UNCHANGED <<pvars, evars, lvars, xvars, jobs, claimedDirs, job, files, now, creq>>

\* the subprocess writes a line; scanner.Scan() returns it and
\* parser.ParseStreamLine turns it into events
RunScanLine(j) ==
    /\ j \in DOMAIN run
    /\ run[j].pc = "reading"
    /\ run[j].pending = << >>
    /\ run[j].nlines < MaxLines
    /\ \E line \in RunLines :
          LET r == ParseStreamLine(line, run[j].counter)
          IN  run' = [run EXCEPT ![j].pending = r.events,
                                 ![j].counter = r.counter,
                                 ![j].nlines = @ + 1]
    /\ UNCHANGED <<pvars, evars, lvars, xvars, jobs, claimedDirs, job, files, now, creq>>

\* the body of the loop over one line's events: job.AddEvent(evt), the
\* session_id of a system event, the flags and statistics of a result event
RunAddEvent(j) ==
    /\ j \in DOMAIN run
    /\ run[j].pc = "reading"
    /\ run[j].pending # << >>
    /\ LET evt == Head(run[j].pending)
           hasSid == /\ evt.Type = "system"
                     /\ ~evt.Raw.isNil
                     /\ stringVal(evt.Raw.m, "session_id").ok
                     /\ stringVal(evt.Raw.m, "session_id").s # ""
           isResult == evt.Type = "result"
       IN  /\ job' = [job EXCEPT
                        ![j].events = AddEvent(@, evt),
                        ![j].sessionID =
                            IF hasSid THEN stringVal(evt.Raw.m, "session_id").s
                            ELSE @,
                        ![j].resultInfo =
                            IF isResult /\ ~evt.Raw.isNil
                            THEN extractResultStats(evt.Raw.m)
                            ELSE @]
           /\ run' = [run EXCEPT
                        ![j].pending = Tail(@),
                        ![j].gotResult = IF isResult THEN TRUE ELSE @,
                        ![j].resultIsError = IF isResult THEN evt.IsError ELSE @]
    /\ UNCHANGED <<pvars, evars, lvars, xvars, jobs, claimedDirs, files, now, creq>>

\* scanner.Scan() stops on a line longer than the 512 KB buffer: the loop
\* ends while the subprocess is still running
RunScanStops(j) ==
    /\ j \in DOMAIN run
    /\ run[j].pc = "reading"
    /\ run[j].pending = << >>
    /\ run' = [run EXCEPT ![j].pc = "waiting"]
    /\ UNCHANGED <<pvars, evars, lvars, xvars, jobs, claimedDirs, job, files, now, creq>>

\* the subprocess creates an entry in the working directory
ProcCreates(j) ==
    /\ j \in DOMAIN run
    /\ run[j].pc \in {"reading", "waiting"}
    /\ Cardinality(DOMAIN files) < MaxEntries
    /\ LET e == Entries[Cardinality(DOMAIN files) + 1]
       IN  files' = files @@ (e.name :> [isDir |-> e.isDir, mtime |-> now])
    /\ UNCHANGED <<pvars, evars, lvars, xvars, jobs, claimedDirs, job, run, now, creq>>

\* the modification times the file system reports
Mtimes == {1, 2}

\* the subprocess creates a research-* directory in the working directory
ProcCreatesDir(j) ==
    /\ j \in DOMAIN run
    /\ run[j].pc \in {"reading", "waiting"}
    /\ \E path \in Paths \ DOMAIN files, t \in Mtimes :
          files' = files @@ (path :> [isDir |-> TRUE, mtime |-> t])
    /\ UNCHANGED <<pvars, evars, lvars, xvars, jobs, claimedDirs, job, run, now, creq>>

\* the subprocess writes into a directory that exists: its modification
\* time moves on
ProcModifiesDir(j) ==
    /\ j \in DOMAIN run
    /\ run[j].pc \in {"reading", "waiting"}
    /\ \E path \in DOMAIN files, t \in Mtimes :
          /\ files[path].isDir
          /\ t > files[path].mtime
          /\ files' = [files EXCEPT ![path].mtime = t]
    /\ UNCHANGED <<pvars, evars, lvars, xvars, jobs, claimedDirs, job, run, now, creq>>

\* the subprocess exits: the scanner sees the end of stdout and cmd.Wait()
\* returns
ProcExits(j) ==
    /\ j \in DOMAIN run
    /\ run[j].pc \in {"reading", "waiting"}
    /\ run[j].pending = << >>
    /\ \E w \in WaitErrs :
          run' = [run EXCEPT ![j].pc = "exited", ![j].waitErr = w]
    /\ UNCHANGED <<pvars, evars, lvars, xvars, jobs, claimedDirs, job, files, now, creq>>

\* Run without the test for an external cancellation
RunAfterWait_ignoresCancel(j) ==
    /\ j \in DOMAIN run
    /\ run[j].pc = "exited"
    /\ run' = [run EXCEPT ![j].pc = "detect",
                          ![j].exitCode = exitCodeOf(run[j].waitErr)]
    /\ UNCHANGED <<pvars, evars, lvars, xvars, jobs, claimedDirs, job, files, now, creq>>

\* after cmd.Wait(): return nil if job.Status() is cancelled, else derive the
\* exit code
RunAfterWait(j) ==
    /\ j \in DOMAIN run
    /\ run[j].pc = "exited"
    /\ run' = IF job[j].status = "cancelled"
              THEN [run EXCEPT ![j] = Returned("nil", "job was cancelled")]
              ELSE [run EXCEPT ![j].pc = "detect",
                               ![j].exitCode = exitCodeOf(run[j].waitErr)]
    /\ UNCHANGED <<pvars, evars, lvars, xvars, jobs, claimedDirs, job, files, now, creq>>

\* the post-run snapshot and the candidates of detectNewOutputDir
RunPostSnapshot(j) ==
    /\ j \in DOMAIN run
    /\ run[j].pc = "detect"
    /\ \E c \in newCandidates(run[j].preDirs, researchDirs(files)) :
          run' = [run EXCEPT ![j].postDirs = researchDirs(files),
                             ![j].candidates = c,
                             ![j].pc = IF c = << >> THEN "final" ELSE "claim"]
    /\ UNCHANGED <<pvars, evars, lvars, xvars, jobs, claimedDirs, job, files, now, creq>>

\* a loop that returns the path whatever ClaimDir answered
RunClaim_ignoresAnswer(j) ==
    /\ j \in DOMAIN run
    /\ run[j].pc = "claim"
    /\ LET path == Head(run[j].candidates)
           claim == ClaimDir(claimedDirs, path)
       IN  /\ claimedDirs' = claim.ledger
           /\ run' = [run EXCEPT ![j].newDir = path, ![j].pc = "setdir"]
    /\ UNCHANGED <<pvars, evars, lvars, xvars, jobs, job, files, now, creq>>

\* a Run that sets the status to completed as soon as it has claimed a
\* directory, before it records it
RunClaim_statusFirst(j) ==
    /\ j \in DOMAIN run
    /\ run[j].pc = "claim"
    /\ LET path == Head(run[j].candidates)
           claim == ClaimDir(claimedDirs, path)
       IN  IF claim.ok
           THEN /\ claimedDirs' = claim.ledger
                /\ job' = [job EXCEPT ![j].status = "completed"]
                /\ run' = [run EXCEPT ![j].newDir = path, ![j].pc = "setdir"]
           ELSE /\ claimedDirs' = claim.ledger
                /\ UNCHANGED job
                /\ run' = [run EXCEPT
                             ![j].candidates = Tail(@),
                             ![j].pc = IF Tail(run[j].candidates) = << >>
                                       THEN "final" ELSE "claim"]
    /\ UNCHANGED <<pvars, evars, lvars, xvars, jobs, files, now, creq>>

\* one turn of detectNewOutputDir's loop: claimer.ClaimDir(path)
RunClaim(j) ==
    /\ j \in DOMAIN run
    /\ run[j].pc = "claim"
    /\ LET path == Head(run[j].candidates)
           claim == ClaimDir(claimedDirs, path)
       IN  IF claim.ok
           THEN /\ claimedDirs' = claim.ledger
                /\ run' = [run EXCEPT ![j].newDir = path, ![j].pc = "setdir"]
           ELSE /\ claimedDirs' = claim.ledger
                /\ run' = [run EXCEPT
                             ![j].candidates = Tail(@),
                             ![j].pc = IF Tail(run[j].candidates) = << >>
                                       THEN "final" ELSE "claim"]
    /\ UNCHANGED <<pvars, evars, lvars, xvars, jobs, job, files, now, creq>>

\* job.SetOutputDir(newDir)
RunSetOutputDir(j) ==
    /\ j \in DOMAIN run
    /\ run[j].pc = "setdir"
    /\ job' = [job EXCEPT ![j].outputDir = run[j].newDir]
    /\ run' = [run EXCEPT ![j].pc = "final"]
    /\ UNCHANGED <<pvars, evars, lvars, xvars, jobs, claimedDirs, files, now, creq>>

\* job.SetStatus(completed) and return, or job.SetStatus(failed)
RunSetFinalStatus(j) ==
    /\ j \in DOMAIN run
    /\ run[j].pc = "final"
    /\ IF runSucceeded(run[j].exitCode, run[j].gotResult, run[j].resultIsError)
       THEN /\ job' = [job EXCEPT ![j].status = "completed"]
            /\ run' = [run EXCEPT ![j] =
                         Returned("nil",
                                  IF run[j].exitCode # 0
                                  THEN "job completed (non-zero exit ignored)"
                                  ELSE "job completed")]
       ELSE /\ job' = [job EXCEPT ![j].status = "failed"]
            /\ run' = [run EXCEPT ![j].pc = "seterr"]
    /\ UNCHANGED <<pvars, evars, lvars, xvars, jobs, claimedDirs, files, now, creq>>

\* job.SetError(errMsg) on the failed branch, and return.  stderrBuf is read
\* here and nowhere else: what the subprocess wrote to it is drawn here.
RunSetError(j) ==
    /\ j \in DOMAIN run
    /\ run[j].pc = "seterr"
    /\ \E stderrBuf \in Stderrs :
          job' = [job EXCEPT
                    ![j].errMsg = failureMessage(stderrBuf, run[j].exitCode)]
    /\ run' = [run EXCEPT ![j] = Returned("nil", "job failed")]
    /\ UNCHANGED <<pvars, evars, lvars, xvars, jobs, claimedDirs, files, now, creq>>

\* the steps of the Runner goroutine of job j
RunnerStep(j) ==
    \/ RunSetRunning(j)
    \/ RunPipeFails(j)
    \/ RunStartFails(j)
    \/ RunStarts(j)
    \/ RunAddEvent(j)
    \/ RunAfterWait(j)
    \/ RunPostSnapshot(j)
    \/ RunClaim(j)
    \/ RunSetOutputDir(j)
    \/ RunSetFinalStatus(j)
    \/ RunSetError(j)

\* what the subprocess of job j does, seen from Run
ProcessStep(j) ==
    \/ RunScanLine(j)
    \/ RunScanStops(j)
    \/ ProcCreates(j)
    \/ ProcExits(j)

(***************************************************************************)
(* A caller of Run other than the server, holding a context it can cancel, *)
(* and what os/exec does for Run once that context is done.                *)
(***************************************************************************)
\* store.Create and go r.Run(ctx, job, store) with ctx from context.WithCancel
DirectRun ==
    /\ \E req \in Requests, id \in JobIds \ DOMAIN job :
          /\ Validate(req) = ""
          /\ jobs' = jobs \cup {id}
          /\ job' = job @@ (id :> NewJob(req, now))
          /\ run' = run @@ (id :> [NewRun EXCEPT !.ctx = "live"])
    /\ UNCHANGED <<pvars, evars, lvars, xvars, claimedDirs, files, now, creq>>

\* the caller calls cancel()
CtxCancel(j) ==
    /\ j \in DOMAIN run
    /\ run[j].ctx = "live"
    /\ run' = [run EXCEPT ![j].ctx = "cancelled"]
    /\ UNCHANGED <<pvars, evars, lvars, xvars, jobs, claimedDirs, job, files, now, creq>>

\* cmd.Cancel, which os/exec calls once ctx is done while the subprocess
\* runs: cmd.Process.Signal(syscall.SIGTERM)
ExecCancel(j) ==
    /\ j \in DOMAIN run
    /\ run[j].pc \in {"reading", "waiting"}
    /\ ctxDone(run[j].ctx)
    /\ ~run[j].signalled
    /\ run' = [run EXCEPT ![j].signalled = TRUE]
    /\ UNCHANGED <<pvars, evars, lvars, xvars, jobs, claimedDirs, job, files, now, creq>>

\* cmd.WaitDelay elapses after cmd.Cancel: os/exec kills the subprocess and
\* closes its pipes, and cmd.Wait() returns an error
ExecWaitDelay(j) ==
    /\ j \in DOMAIN run
    /\ run[j].pc \in {"reading", "waiting"}
    /\ run[j].signalled
    /\ run[j].pending = << >>
    /\ \E w \in {e \in WaitErrs : e.kind # "nil"} :
          run' = [run EXCEPT ![j].pc = "exited", ![j].waitErr = w]
    /\ UNCHANGED <<pvars, evars, lvars, xvars, jobs, claimedDirs, job, files, now, creq>>

\* the steps os/exec takes for Run's context
ExecStep(j) == ExecCancel(j) \/ ExecWaitDelay(j)

(***************************************************************************)
(* internal/server: DELETE /research/{id}.  creq[i] is the i-th handler    *)
(* goroutine: idle, or between lookupJob and SetStatus ("set"), or between *)
(* SetStatus and ToStatus ("respond").                                     *)
(***************************************************************************)
\* the handler goroutine that takes the next request
FreeHandler == CHOOSE i \in 1..MaxCancels :
                  /\ creq[i].pc = "idle"
                  /\ \A k \in 1..MaxCancels : creq[k].pc = "idle" => i <= k

\* the response of lookupJob to a request for id: 404 when it is not registered
LookupResponse(id) == IF id \in jobs THEN 0 ELSE 404

\* handleCancelResearch, lookupJob: a 404 and nothing else for an identifier
\* that is not registered
CancelLookup(id) ==
    /\ \E i \in 1..MaxCancels : creq[i].pc = "idle"
    /\ creq' = IF LookupResponse(id) = 404 THEN creq
               ELSE [creq EXCEPT ![FreeHandler] = [id |-> id, pc |-> "set"]]
    /\ UNCHANGED <<pvars, evars, lvars, xvars, jobs, claimedDirs, job, run, files, now>>

\* handleCancelResearch: job.SetStatus(model.StatusCancelled)
CancelSetStatus(i) ==
    /\ creq[i].pc = "set"
    /\ job' = [job EXCEPT ![creq[i].id].status = "cancelled"]
    /\ creq' = [creq EXCEPT ![i].pc = "respond"]
    /\ UNCHANGED <<pvars, evars, lvars, xvars, jobs, claimedDirs, run, files, now>>

\* the response handleCancelResearch writes: 200 with job.ToStatus()
CancelResponse(i) ==
    [code |-> 200, status |-> job[creq[i].id].status,
     output_lines |-> Len(job[creq[i].id].events)]

\* handleCancelResearch: writeJSON(w, http.StatusOK, job.ToStatus())
CancelRespond(i) ==
    /\ creq[i].pc = "respond"
    /\ creq' = [creq EXCEPT ![i] = IdleHandler]
    /\ UNCHANGED <<pvars, evars, lvars, xvars, jobs, claimedDirs, job, run, files, now>>

\* the steps of the i-th cancel handler after its lookup
CancelStep(i) == CancelSetStatus(i) \/ CancelRespond(i)

(***************************************************************************)
(* internal/server: GET /research/{id}/stream.  strm[s] is the s-th        *)
(* handler goroutine: "idle", or at its select ("select"), or after the    *)
(* events of a tick and before job.Status() ("polled"), or after a         *)
(* terminal status and before job.OutputDir() ("done"), or returned        *)
(* ("closed").  sent is what it has written to the client.                 *)
(***************************************************************************)
\* the handler goroutine that takes the next stream request
FreeStream == CHOOSE s \in 1..MaxStreams :
                  /\ strm[s].pc = "idle"
                  /\ \A k \in 1..MaxStreams : strm[k].pc = "idle" => s <= k

\* handleStreamResearch up to its loop: 404 for an identifier that is not
\* registered, else the cursor is set from the "after" parameter
StreamConnect(id, v) ==
    /\ \E s \in 1..MaxStreams : strm[s].pc = "idle"
    /\ strm' = IF id \notin jobs THEN strm
               ELSE [strm EXCEPT ![FreeStream] =
                       [IdleStream EXCEPT !.pc = "select", !.id = id,
                                          !.after = afterOf(v),
                                          !.cursor = afterOf(v)]]
    /\ UNCHANGED <<pvars, evars, lvars, svars, srvCtx, oplog>>

\* the select takes <-ticker.C (it may, whenever the ticker has fired, also
\* when a context is done): job.EventsSince(cursor), and one message written
\* and the cursor advanced for each event returned
StreamPoll(s) ==
    /\ strm[s].pc = "select"
    /\ LET events == EventsSince(job[strm[s].id].events, strm[s].cursor)
       IN  strm' = [strm EXCEPT
                      ![s].sent = @ \o [i \in 1..Len(events) |->
                                           EventMessage(events[i])],
                      ![s].cursor = @ + Len(events),
                      ![s].pc = "polled"]
    /\ UNCHANGED <<pvars, evars, lvars, svars, srvCtx, oplog>>

\* status := job.Status() and the test for a terminal status
StreamReadStatus(s) ==
    /\ strm[s].pc = "polled"
    /\ LET status == job[strm[s].id].status
       IN  strm' = IF status \in Terminal
                   THEN [strm EXCEPT ![s].pc = "done", ![s].status = status]
                   ELSE [strm EXCEPT ![s].pc = "select"]
    /\ UNCHANGED <<pvars, evars, lvars, svars, srvCtx, oplog>>

\* a handler that writes the sentinel and goes on polling
StreamSentinel_keepsPolling(s) ==
    /\ strm[s].pc = "done"
    /\ strm' = [strm EXCEPT
                  ![s].sent = Append(@, DoneMessage(strm[s].status,
                                                    job[strm[s].id].outputDir)),
                  ![s].pc = "select"]
    /\ UNCHANGED <<pvars, evars, lvars, svars, srvCtx, oplog>>

\* job.OutputDir(), the sentinel written, and the return
StreamSentinel(s) ==
    /\ strm[s].pc = "done"
    /\ strm' = [strm EXCEPT
                  ![s].sent = Append(@, DoneMessage(strm[s].status,
                                                    job[strm[s].id].outputDir)),
                  ![s].pc = "closed"]
    /\ UNCHANGED <<pvars, evars, lvars, svars, srvCtx, oplog>>

\* the select takes <-s.ctx.Done() or <-r.Context().Done(): return
StreamCtxReturn(s) ==
    /\ strm[s].pc = "select"
    /\ srvCtx = "cancelled" \/ strm[s].ctx = "cancelled"
    /\ strm' = [strm EXCEPT ![s].pc = "closed"]
    /\ UNCHANGED <<pvars, evars, lvars, svars, srvCtx, oplog>>

\* the steps of the s-th stream handler
StreamStep(s) ==
    \/ StreamPoll(s)
    \/ StreamReadStatus(s)
    \/ StreamSentinel(s)
    \/ StreamCtxReturn(s)

\* a disconnect that also cancels the job
ClientDisconnect_cancelsJob(s) ==
    /\ strm[s].pc \notin {"idle", "closed"}
    /\ strm[s].ctx = "live"
    /\ strm' = [strm EXCEPT ![s].ctx = "cancelled"]
    /\ job' = [job EXCEPT ![strm[s].id].status = "cancelled"]
    /\ UNCHANGED <<pvars, evars, lvars, jobs, claimedDirs, run, files, now, creq, srvCtx, oplog>>

\* the client of the s-th stream goes away: its request context is done
ClientDisconnect(s) ==
    /\ strm[s].pc \notin {"idle", "closed"}
    /\ strm[s].ctx = "live"
    /\ strm' = [strm EXCEPT ![s].ctx = "cancelled"]
    /\ UNCHANGED <<pvars, evars, lvars, svars, srvCtx, oplog>>

\* the server shuts down: its lifetime context is done
ServerShutdown ==
    /\ srvCtx = "live"
    /\ srvCtx' = "cancelled"
    /\ UNCHANGED <<pvars, evars, lvars, svars, strm, oplog>>

(***************************************************************************)
(* internal/jobstore called directly, by any number of goroutines: every   *)
(* method holds its mutex from its first statement to its return, so the   *)
(* calls take effect one at a time, in some order.  oplog records them in  *)
(* that order.                                                             *)
(***************************************************************************)
\* the cursors callers pass to EventsSince
Cursors == {-2, 0, 1, 5}

\* the kinds of event callers append: type and subtype
EventKinds == {<<"assistant", "text">>, <<"assistant", "tool_use">>,
               <<"system", "init">>}

\* one recorded call: the job, cursor or path it was given, the log and the
\* ledger it found, the log and the ledger it left, and what it returned
Call(op, id, cursor, path, out, ok) ==
    [op |-> op, id |-> id, cursor |-> cursor, path |-> path,
     log |-> IF id \in DOMAIN job THEN job[id].events ELSE << >>,
     logLeft |-> IF id \in DOMAIN job' THEN job'[id].events ELSE << >>,
     held |-> claimedDirs, heldLeft |-> claimedDirs',
     out |-> out, ok |-> ok]

\* one recorded call of Get or Delete: the identifier, the registry it
\* found and left, and what it returned
RegistryCall(op, id, out) ==
    [op |-> op, id |-> id, reg |-> jobs, regLeft |-> jobs',
     ok |-> out.ok, ref |-> out.ref]

\* store.Get(id)
DirectGet(id) ==
    /\ Len(oplog) < MaxOps
    /\ UNCHANGED <<pvars, evars, lvars, svars, strm, srvCtx>>
    /\ oplog' = Append(oplog, RegistryCall("Get", id, Get(jobs, id)))

\* store.Delete(id)
DirectDelete(id) ==
    /\ Len(oplog) < MaxOps
    /\ jobs' = Delete(jobs, id)
    /\ UNCHANGED <<pvars, evars, lvars, strm, srvCtx, claimedDirs, job, run, files, now, creq>>
    /\ oplog' = Append(oplog, RegistryCall("Delete", id, [ok |-> TRUE, ref |-> ""]))

\* store.Create(id, ...) with no Runner started
DirectCreate ==
    /\ \E req \in Requests, id \in JobIds \ DOMAIN job :
          /\ Validate(req) = ""
          /\ jobs' = jobs \cup {id}
          /\ job' = job @@ (id :> NewJob(req, now))
    /\ UNCHANGED <<pvars, evars, lvars, xvars, claimedDirs, run, files, now, creq>>

\* job.AddEvent(evt), the event numbered by the caller
DirectAddEvent(j) ==
    /\ j \in DOMAIN job
    /\ Len(oplog) < MaxOps
    /\ \E kind \in EventKinds :
          LET evt == [ZeroEvent EXCEPT !.Index = Len(oplog), !.Type = kind[1],
                                       !.Subtype = kind[2]]
          IN  /\ job' = [job EXCEPT ![j].events = AddEvent(@, evt)]
              /\ UNCHANGED claimedDirs
              /\ oplog' = Append(oplog, Call("AddEvent", j, 0, << >>, <<evt>>, TRUE))
    /\ UNCHANGED <<pvars, evars, lvars, strm, srvCtx, jobs, run, files, now, creq>>

\* job.EventsSince(cursor)
DirectEventsSince(j, cursor) ==
    /\ j \in DOMAIN job
    /\ Len(oplog) < MaxOps
    /\ UNCHANGED <<job, claimedDirs>>
    /\ oplog' = Append(oplog, Call("EventsSince", j, cursor, << >>,
                                   EventsSince(job[j].events, cursor), TRUE))
    /\ UNCHANGED <<pvars, evars, lvars, strm, srvCtx, jobs, run, files, now, creq>>

\* job.ToStatus()
DirectToStatus(j) ==
    /\ j \in DOMAIN job
    /\ Len(oplog) < MaxOps
    /\ UNCHANGED <<job, claimedDirs>>
    /\ oplog' = Append(oplog, Call("ToStatus", j, 0, << >>, ToStatus(job[j]), TRUE))
    /\ UNCHANGED <<pvars, evars, lvars, strm, srvCtx, jobs, run, files, now, creq>>

\* store.ClaimDir(path)
DirectClaimDir(path) ==
    /\ Len(oplog) < MaxOps
    /\ LET claim == ClaimDir(claimedDirs, path)
       IN  /\ claimedDirs' = claim.ledger
           /\ UNCHANGED job
           /\ oplog' = Append(oplog, Call("ClaimDir", "", 0, path, << >>, claim.ok))
    /\ UNCHANGED <<pvars, evars, lvars, strm, srvCtx, jobs, run, files, now, creq>>

\* store.ReleaseDir(path)
DirectReleaseDir(path) ==
    /\ Len(oplog) < MaxOps
    /\ claimedDirs' = ReleaseDir(claimedDirs, path)
    /\ UNCHANGED job
    /\ oplog' = Append(oplog, Call("ReleaseDir", "", 0, path, << >>, TRUE))
    /\ UNCHANGED <<pvars, evars, lvars, strm, srvCtx, jobs, run, files, now, creq>>

(***************************************************************************)
(* The Store's methods with their locking: a goroutine calls a method      *)
(* ("lock": it is at s.mu.Lock() or s.mu.RLock()), gets the mutex          *)
(* ("held"), then does the method's work and unlocks.  A sync.RWMutex is   *)
(* granted for writing when nobody holds it, for reading when nobody holds *)
(* it for writing.                                                         *)
(***************************************************************************)
\* the methods that take s.mu.Lock(), and those that take s.mu.RLock()
WriteOps == {"Create", "Delete", "CleanupExpired", "ClaimDir", "ReleaseDir"}
ReadOps == {"Get", "List"}

\* s.mu can be granted to goroutine w: for writing when nobody holds it, for
\* reading when nobody holds it for writing and no goroutine is at its Lock()
\* (a sync.RWMutex makes new readers wait behind a waiting writer)
CanAcquire(w) ==
    IF wk[w].op \in WriteOps
    THEN smu.writer = 0 /\ smu.readers = {}
    ELSE /\ smu.writer = 0
         /\ \A v \in 1..MaxWorkers :
               ~(wk[v].pc = "lock" /\ wk[v].op \in WriteOps)

\* goroutine w calls a Store method and reaches its Lock or RLock
StoreCall(w, op) ==
    /\ wk[w].pc = "idle"
    /\ wk' = [wk EXCEPT ![w] = [IdleWorker EXCEPT !.pc = "lock", !.op = op]]
    /\ UNCHANGED <<pvars, evars, svars, xvars, smu, jmu>>

\* s.mu.Lock() or s.mu.RLock() returns in goroutine w
StoreAcquire(w) ==
    /\ wk[w].pc = "lock"
    /\ CanAcquire(w)
    /\ smu' = IF wk[w].op \in WriteOps
              THEN [smu EXCEPT !.writer = w]
              ELSE [smu EXCEPT !.readers = @ \cup {w}]
    /\ wk' = [wk EXCEPT ![w].pc = "held"]
    /\ UNCHANGED <<pvars, evars, svars, xvars, jmu>>

\* the registry and the ledger a method leaves, called on a job identifier
\* and a path
StoreEffect(op, id, path) ==
    [jobs |-> IF op = "Create" THEN jobs \cup {id}
              ELSE IF op = "Delete" THEN jobs \ {id}
              ELSE IF op = "CleanupExpired"
                   THEN CleanupExpired(jobs, job, now, maxJobAge)
              ELSE jobs,
     claimedDirs |-> IF op = "ClaimDir" THEN ClaimDir(claimedDirs, path).ledger
                     ELSE IF op = "ReleaseDir" THEN ReleaseDir(claimedDirs, path)
                     ELSE claimedDirs]

\* goroutine w does the work of its method under the mutex and unlocks
StoreReturn(w) ==
    /\ wk[w].pc = "held"
    /\ \E id \in JobIds, path \in Paths, req \in Requests :
          /\ Validate(req) = ""
          /\ jobs' = StoreEffect(wk[w].op, id, path).jobs
          /\ claimedDirs' = StoreEffect(wk[w].op, id, path).claimedDirs
          /\ job' = IF wk[w].op = "Create"
                    THEN [k \in DOMAIN job \cup {id} |->
                            IF k = id THEN NewJob(req, now) ELSE job[k]]
                    ELSE job
    /\ smu' = IF wk[w].op \in WriteOps
              THEN [smu EXCEPT !.writer = 0]
              ELSE [smu EXCEPT !.readers = @ \ {w}]
    /\ wk' = [wk EXCEPT ![w] = IdleWorker]
    /\ UNCHANGED <<pvars, evars, xvars, run, files, now, creq, jmu>>

(***************************************************************************)
(* The Store's methods and the Job's methods with both mutexes.  List and  *)
(* CleanupExpired, holding s.mu, take the mutex of each registered job for *)
(* reading ("jlock": at j.mu.RLock(), "jheld": holding it); a Job method   *)
(* takes the mutex of its job and nothing else.  The Runner is a goroutine *)
(* that calls SetStatus, AddEvent and ClaimDir one after the other, a      *)
(* stream handler one that calls Get, EventsSince and Status.              *)
(***************************************************************************)
VisitOps == {"List", "CleanupExpired"}
JobWriteOps == {"SetStatus", "AddEvent"}
JobReadOps == {"Status", "EventsSince"}

\* goroutine w asks for the job's mutex for writing
WantsJobWrite(w) == wk[w].op \in JobWriteOps

\* the mutex of the job goroutine w is at can be granted to it
CanAcquireJob(w) ==
    LET mu == jmu[wk[w].id]
    IN  IF WantsJobWrite(w)
        THEN mu.writer = 0 /\ mu.readers = {}
        ELSE /\ mu.writer = 0
             /\ \A v \in 1..MaxWorkers :
                   ~(wk[v].pc = "jlock" /\ wk[v].id = wk[w].id /\ WantsJobWrite(v))

\* the loop of List or CleanupExpired reaches the next job: j.ToStatus() or
\* j.mu.RLock()
StoreVisit(w) ==
    /\ wk[w].pc = "held"
    /\ wk[w].op \in VisitOps
    /\ \E j \in jobs \ wk[w].seen :
          wk' = [wk EXCEPT ![w].pc = "jlock", ![w].id = j]
    /\ UNCHANGED <<pvars, evars, svars, xvars, smu, jmu>>

\* goroutine w calls a method of a job it has a pointer to and reaches its
\* Lock or RLock
JobCall(w, op, j) ==
    /\ wk[w].pc = "idle"
    /\ j \in DOMAIN job
    /\ op = "AddEvent" => Len(job[j].events) < MaxLines
    /\ wk' = [wk EXCEPT ![w] = [IdleWorker EXCEPT !.pc = "jlock", !.op = op,
                                                   !.id = j]]
    /\ UNCHANGED <<pvars, evars, svars, xvars, smu, jmu>>

\* j.mu.Lock() or j.mu.RLock() returns in goroutine w
JobAcquire(w) ==
    /\ wk[w].pc = "jlock"
    /\ CanAcquireJob(w)
    /\ jmu' = IF WantsJobWrite(w)
              THEN [jmu EXCEPT ![wk[w].id].writer = w]
              ELSE [jmu EXCEPT ![wk[w].id].readers = @ \cup {w}]
    /\ wk' = [wk EXCEPT ![w].pc = "jheld"]
    /\ UNCHANGED <<pvars, evars, svars, xvars, smu>>

\* a Job method that returns without unlocking after a write
JobRelease_keepsLock(w) ==
    /\ wk[w].pc = "jheld"
    /\ LET j == wk[w].id
       IN  /\ jmu' = IF WantsJobWrite(w) THEN jmu
                     ELSE [jmu EXCEPT ![j].readers = @ \ {w}]
           /\ wk' = [wk EXCEPT ![w] =
                       IF wk[w].op \in VisitOps
                       THEN [@ EXCEPT !.pc = "held", !.id = "",
                                      !.seen = @ \cup {j}]
                       ELSE IdleWorker]
           /\ jobs' = IF wk[w].op = "CleanupExpired"
                      THEN jobs \ ({j} \ CleanupExpired({j}, job, now, maxJobAge))
                      ELSE jobs
           /\ IF wk[w].op = "SetStatus"
              THEN \E st \in {"running", "cancelled"} :
                      job' = [job EXCEPT ![j].status = st]
              ELSE IF wk[w].op = "AddEvent"
              THEN job' = [job EXCEPT ![j].events =
                             AddEvent(@, [ZeroEvent EXCEPT !.Index = Len(job[j].events),
                                                           !.Type = "raw"])]
              ELSE job' = job
    /\ UNCHANGED <<pvars, evars, xvars, claimedDirs, run, files, now, creq, smu>>

\* goroutine w does the work of the Job method, or of the loop's turn, under
\* the job's mutex and unlocks it: SetStatus and AddEvent write the record,
\* CleanupExpired deletes the job it found terminal and old, List and the
\* accessors read
JobRelease(w) ==
    /\ wk[w].pc = "jheld"
    /\ LET j == wk[w].id
       IN  /\ jmu' = IF WantsJobWrite(w)
                     THEN [jmu EXCEPT ![j].writer = 0]
                     ELSE [jmu EXCEPT ![j].readers = @ \ {w}]
           /\ wk' = [wk EXCEPT ![w] =
                       IF wk[w].op \in VisitOps
                       THEN [@ EXCEPT !.pc = "held", !.id = "",
                                      !.seen = @ \cup {j}]
                       ELSE IdleWorker]
           /\ jobs' = IF wk[w].op = "CleanupExpired"
                      THEN jobs \ ({j} \ CleanupExpired({j}, job, now, maxJobAge))
                      ELSE jobs
           /\ IF wk[w].op = "SetStatus"
              THEN \E st \in {"running", "cancelled"} :
                      job' = [job EXCEPT ![j].status = st]
              ELSE IF wk[w].op = "AddEvent"
              THEN job' = [job EXCEPT ![j].events =
                             AddEvent(@, [ZeroEvent EXCEPT !.Index = Len(job[j].events),
                                                           !.Type = "raw"])]
              ELSE job' = job
    /\ UNCHANGED <<pvars, evars, xvars, claimedDirs, run, files, now, creq, smu>>

\* List or CleanupExpired has been through every registered job: s.mu is
\* unlocked and the method returns
StoreLeave(w) ==
    /\ wk[w].pc = "held"
    /\ wk[w].op \in VisitOps
    /\ jobs \ wk[w].seen = {}
    /\ smu' = IF wk[w].op \in WriteOps
              THEN [smu EXCEPT !.writer = 0]
              ELSE [smu EXCEPT !.readers = @ \ {w}]
    /\ wk' = [wk EXCEPT ![w] = IdleWorker]
    /\ UNCHANGED <<pvars, evars, svars, xvars, jmu>>

\* a Store method that takes no job's mutex does its work and returns
StorePlainReturn(w) ==
    /\ wk[w].op \notin VisitOps
    /\ StoreReturn(w)

\* a goroutine calls a Store method; Create is called once per identifier
StoreCallOnce(w, op) ==
    /\ op = "Create" =>
          /\ DOMAIN job = {}
          /\ \A v \in 1..MaxWorkers : wk[v].op # "Create"
    /\ StoreCall(w, op)

(***************************************************************************)
(* The sweep and the clock.                                                *)
(***************************************************************************)
\* a sweep that also releases the output directories of the jobs it removes
Sweep_releasesDirs ==
    /\ jobs' = CleanupExpired(jobs, job, now, maxJobAge)
    /\ claimedDirs' =
          claimedDirs \ {job[id].outputDir : id \in jobs \ CleanupExpired(jobs, job, now, maxJobAge)}
    /\ UNCHANGED <<pvars, evars, lvars, xvars, job, run, files, now, creq>>

\* store.CleanupExpired(maxJobAge): the hourly ticker of main, GET /research
Sweep ==
    /\ jobs' = CleanupExpired(jobs, job, now, maxJobAge)
    /\ UNCHANGED <<pvars, evars, lvars, xvars, claimedDirs, job, run, files, now, creq>>

\* a day passes; the clock starts with the first submission
Tick ==
    /\ DOMAIN job # {}
    /\ now < MaxNow
    /\ now' = now + 1
    /\ UNCHANGED <<pvars, evars, lvars, xvars, jobs, claimedDirs, job, run, files, creq>>

(***************************************************************************)
(* internal/envutil: a caller sets the environment up and calls            *)
(* FilteredEnv; a change of the environment starts the next case.          *)
(***************************************************************************)
SetenvCall ==
    \E key \in EnvKeys, value \in EnvValues :
        /\ Len(Setenv(environ, key, value)) <= MaxEnv
        /\ environ' = Setenv(environ, key, value)
        /\ filtered' = NotFiltered
        /\ UNCHANGED <<pvars, svars, xvars, lvars>>

UnsetenvCall ==
    \E key \in EnvKeys :
        /\ environ' = Unsetenv(environ, key)
        /\ filtered' = NotFiltered
        /\ UNCHANGED <<pvars, svars, xvars, lvars>>

FilteredEnvCall ==
    /\ filtered' = [called |-> TRUE, env |-> environ, out |-> FilteredEnv(environ)]
    /\ UNCHANGED <<pvars, svars, xvars, lvars, environ>>

(***************************************************************************)
(* Specifications.                                                         *)
(***************************************************************************)
Next ==
    \/ StartResearchRejected
    \/ StartResearch
    \/ \E j \in JobIds : RunnerStep(j)
    \/ \E j \in JobIds : ProcessStep(j)
    \/ \E id \in JobIds : CancelLookup(id)
    \/ \E i \in 1..MaxCancels : CancelStep(i)
    \/ Sweep
    \/ Tick

\* the server: submissions, runs, cancel requests, the sweep
Spec == Init /\ [][Next]_vars

\* the server, with every goroutine that can take a step eventually taking
\* it; nothing is assumed of the subprocess, of the clients or of the clock
FairSpec ==
    /\ Spec
    /\ \A j \in JobIds : WF_vars(RunnerStep(j))
    /\ \A i \in 1..MaxCancels : WF_vars(CancelStep(i))

\* the server and, beside it, callers that run jobs under a context they
\* can cancel
RunnerNext ==
    \/ Next
    \/ DirectRun
    \/ \E j \in JobIds : CtxCancel(j)
    \/ \E j \in JobIds : ExecStep(j)

RunnerSpec == Init /\ [][RunnerNext]_vars

\* RunnerSpec with the goroutines of Run and of os/exec taking their steps
RunnerFairSpec ==
    /\ RunnerSpec
    /\ \A j \in JobIds : WF_vars(RunnerStep(j))
    /\ \A j \in JobIds : WF_vars(ExecStep(j))

\* the server seen from its stream clients: submissions, runs, cancel
\* requests, stream requests, disconnections and the shutdown
StreamNext ==
    \/ StartResearch
    \/ \E j \in JobIds : RunnerStep(j)
    \/ \E j \in JobIds : ProcessStep(j)
    \/ \E id \in JobIds : CancelLookup(id)
    \/ \E i \in 1..MaxCancels : CancelStep(i)
    \/ \E id \in JobIds, v \in AfterParams : StreamConnect(id, v)
    \/ \E s \in 1..MaxStreams : StreamStep(s)
    \/ \E s \in 1..MaxStreams : ClientDisconnect(s)
    \/ ServerShutdown

StreamSpec == Init /\ [][StreamNext]_vars

\* StreamSpec with the goroutines of the server taking their steps: the
\* runs, the cancel handlers, and the stream handlers, whose ticker fires
\* every 300 ms; nothing is assumed of the subprocess or of the clients
StreamFairSpec ==
    /\ StreamSpec
    /\ \A j \in JobIds : WF_vars(RunnerStep(j))
    /\ \A i \in 1..MaxCancels : WF_vars(CancelStep(i))
    /\ \A s \in 1..MaxStreams : WF_vars(StreamStep(s))

\* submissions sharing the server's working directory, their runs, and
\* subprocesses that write nothing on stdout and create and modify
\* research-* directories there
SharedNext ==
    \/ StartShared
    \/ \E j \in SharedIds : RunSetRunning(j)
    \/ \E j \in SharedIds : RunStarts(j)
    \/ \E j \in SharedIds : ProcCreatesDir(j)
    \/ \E j \in SharedIds : ProcModifiesDir(j)
    \/ \E j \in SharedIds : ProcExits(j)
    \/ \E j \in SharedIds : RunAfterWait(j)
    \/ \E j \in SharedIds : RunPostSnapshot(j)
    \/ \E j \in SharedIds : RunClaim(j)
    \/ \E j \in SharedIds : RunSetOutputDir(j)
    \/ \E j \in SharedIds : RunSetFinalStatus(j)
    \/ \E j \in SharedIds : RunSetError(j)

SharedSpec == Init /\ [][SharedNext]_vars

\* the server seen from a client that posts requests of every kind and
\* keeps the responses
ClientNext ==
    \/ \E req \in Requests : PostResearch(req)
    \/ \E j \in JobIds : RunnerStep(j)
    \/ \E j \in JobIds : ProcessStep(j)

ClientSpec == Init /\ [][ClientNext]_vars

\* the registry: jobs created, looked up, cancelled, deleted and swept as
\* the days pass
RegistryNext ==
    \/ DirectCreate
    \/ \E id \in JobIds : DirectGet(id)
    \/ \E id \in JobIds : DirectDelete(id)
    \/ \E id \in JobIds : CancelLookup(id)
    \/ \E i \in 1..MaxCancels : CancelStep(i)
    \/ Sweep
    \/ Tick

RegistrySpec == Init /\ [][RegistryNext]_vars

\* goroutines calling the Store's methods at the same time
LockNext ==
    \/ \E w \in 1..MaxWorkers, op \in WriteOps \cup ReadOps : StoreCall(w, op)
    \/ \E w \in 1..MaxWorkers : StoreAcquire(w)
    \/ \E w \in 1..MaxWorkers : StoreReturn(w)

LockSpec == Init /\ [][LockNext]_vars

\* goroutines calling the Store's and a Job's methods at the same time, as
\* the days pass
MutexNext ==
    \/ \E w \in 1..MaxWorkers, op \in WriteOps \cup ReadOps : StoreCallOnce(w, op)
    \/ \E w \in 1..MaxWorkers : StoreAcquire(w)
    \/ \E w \in 1..MaxWorkers : StoreVisit(w)
    \/ \E w \in 1..MaxWorkers : StoreLeave(w)
    \/ \E w \in 1..MaxWorkers : StorePlainReturn(w)
    \/ \E w \in 1..MaxWorkers, op \in JobWriteOps \cup JobReadOps, j \in JobIds :
          JobCall(w, op, j)
    \/ \E w \in 1..MaxWorkers : JobAcquire(w)
    \/ \E w \in 1..MaxWorkers : JobRelease(w)
    \/ Tick

MutexSpec == Init /\ [][MutexNext]_vars

\* goroutines calling the Store and a Job directly
DirectNext ==
    \/ DirectCreate
    \/ \E j \in JobIds : DirectAddEvent(j)
    \/ \E j \in JobIds, cursor \in Cursors : DirectEventsSince(j, cursor)
    \/ \E j \in JobIds : DirectToStatus(j)
    \/ \E path \in Paths : DirectClaimDir(path)
    \/ \E path \in Paths : DirectReleaseDir(path)

DirectSpec == Init /\ [][DirectNext]_vars

\* a submission, its run with a subprocess that writes nothing on stdout and
\* creates and modifies research-* directories, the sweep as the days pass,
\* and callers that delete jobs and release directories
LedgerNext ==
    \/ StartResearch
    \/ \E j \in JobIds : RunSetRunning(j)
    \/ \E j \in JobIds : RunStarts(j)
    \/ \E j \in JobIds : ProcCreatesDir(j)
    \/ \E j \in JobIds : ProcModifiesDir(j)
    \/ \E j \in JobIds : ProcExits(j)
    \/ \E j \in JobIds : RunAfterWait(j)
    \/ \E j \in JobIds : RunPostSnapshot(j)
    \/ \E j \in JobIds : RunClaim(j)
    \/ \E j \in JobIds : RunSetOutputDir(j)
    \/ \E j \in JobIds : RunSetFinalStatus(j)
    \/ \E j \in JobIds : RunSetError(j)
    \/ Sweep
    \/ Tick
    \/ \E id \in JobIds : DirectDelete(id)
    \/ \E path \in Paths : DirectReleaseDir(path)

LedgerSpec == Init /\ [][LedgerNext]_vars

EnvNext == SetenvCall \/ UnsetenvCall \/ FilteredEnvCall

\* the environment and the calls of FilteredEnv alone
EnvSpec == Init /\ [][EnvNext]_vars

ParserNext == ParseCall

\* a sequence of ParseStreamLine calls on one counter
ParserSpec == Init /\ [][ParserNext]_vars

(***************************************************************************)
(* Properties of the job lifecycle.                                        *)
(***************************************************************************)
\* the position of a status on pending -> running -> terminal
Rank(st) == IF st = "pending" THEN 0 ELSE IF st = "running" THEN 1 ELSE 2

\* C1: in every execution a job's status only moves forward along
\* pending -> running -> {completed, failed, cancelled}: no step takes it from
\* running back to pending, or from a terminal status back to pending or
\* running.
StatusMovesForward ==
    [][\A j \in DOMAIN job : Rank(job'[j].status) >= Rank(job[j].status)]_vars

\* C2: once a job's status is terminal, no step changes it.
TerminalIsFinal ==
    [][\A j \in DOMAIN job :
          job[j].status \in Terminal => job'[j].status = job[j].status]_vars

\* C3: once a job's status is cancelled, no step of the Runner (or of anything
\* else) sets another status: it stays cancelled.
CancelledIsKept ==
    [][\A j \in DOMAIN job :
          job[j].status = "cancelled" => job'[j].status = "cancelled"]_vars

\* C4: a Run that has returned has left its job in a terminal status,
\* whichever path it returned by.
ReturnedRunIsTerminal ==
    \A j \in DOMAIN run : run[j].pc = "done" => job[j].status \in Terminal

\* a result event with error flag false is in the job's log
SawSuccessfulResult(j) ==
    \E i \in 1..Len(job[j].events) :
        job[j].events[i].Type = "result" /\ ~job[j].events[i].IsError

\* C5: when the Runner sets the final status of a run that was not
\* cancelled, it sets completed if the process exited with status zero or a
\* result event with error flag false was observed during the run, and
\* failed otherwise.
CompletedIffSucceeded ==
    [][\A j \in DOMAIN run :
          (run[j].pc = "final" /\ run'[j].pc # "final"
           /\ job[j].status # "cancelled") =>
              job'[j].status =
                  IF run[j].exitCode = 0 \/ SawSuccessfulResult(j)
                  THEN "completed" ELSE "failed"]_vars

\* C6: a Run that has marked its job failed has recorded a non-empty error
\* message, trimmed; a Run that has marked its job completed has recorded
\* none, also when the process exited non-zero.
ErrorIffFailed ==
    \A j \in DOMAIN run :
        /\ (run[j].pc = "done" /\ run[j].logged = "job failed") =>
              /\ job[j].errMsg # << >>
              /\ TrimSpace(job[j].errMsg) = job[j].errMsg
        /\ (job[j].status = "failed" /\ run[j].pc = "done") =>
              job[j].errMsg # << >>
        /\ run[j].logged \in {"job completed",
                              "job completed (non-zero exit ignored)"} =>
              job[j].errMsg = << >>
        /\ job[j].status = "completed" => job[j].errMsg = << >>

\* a Run has failed its job on an exit code of 2 with a blank stderr
ErrorIffFailedWitness ==
    \E j \in DOMAIN run :
        /\ run[j].pc = "done"
        /\ run[j].logged = "job failed"
        /\ job[j].status = "failed"
        /\ job[j].errMsg = <<"subprocess exited with code ", "2">>

\* C7: when the Runner finds the status cancelled after the process has
\* exited, Run returns nil and changes nothing of the job: the status stays
\* cancelled and no error message is recorded, whatever cmd.Wait() returned.
CancelledExitIsClean ==
    [][\A j \in DOMAIN run :
          (run[j].pc = "exited" /\ job[j].status = "cancelled"
           /\ run'[j] # run[j]) =>
              /\ run'[j].pc = "done"
              /\ run'[j].ret = "nil"
              /\ job'[j] = job[j]
              /\ job'[j].status = "cancelled"
              /\ job'[j].errMsg = << >>]_vars

\* a Run has returned through the cancellation test, its job cancelled and
\* without an error message
CancelledExitWitness ==
    \E j \in DOMAIN run :
        /\ run[j].pc = "done"
        /\ run[j].ret = "nil"
        /\ run[j].logged = "job was cancelled"
        /\ job[j].status = "cancelled"
        /\ job[j].errMsg = << >>

\* C8: once a job is cancelled while its subprocess runs, its Run eventually
\* returns, whether or not the subprocess ends on its own.
CancelEndsRun ==
    \A j \in JobIds :
        (j \in DOMAIN job /\ job[j].status = "cancelled"
         /\ run[j].pc \in {"reading", "waiting"})
            ~> (j \in DOMAIN run /\ run[j].pc = "done")

\* C9: a cancel request for a registered job answers 200 with the status
\* cancelled, and cancelled is the job's status once it has answered.
CancelAnswersCancelled ==
    [][\A i \in 1..MaxCancels :
          (creq[i].pc = "respond" /\ creq'[i].pc = "idle") =>
              /\ CancelResponse(i).code = 200
              /\ CancelResponse(i).status = "cancelled"
              /\ job'[creq[i].id].status = "cancelled"]_vars

\* Under a context the caller cancels, cmd.Cancel and cmd.WaitDelay do end
\* the run: once ctx is done while the subprocess runs, Run returns.
CtxCancelEndsRun ==
    \A j \in JobIds :
        (j \in DOMAIN run /\ ctxDone(run[j].ctx)
         /\ run[j].pc \in {"reading", "waiting"})
            ~> (j \in DOMAIN run /\ run[j].pc = "done")

(***************************************************************************)
(* Properties of the parser.                                               *)
(***************************************************************************)
\* C10: after any sequence of ParseStreamLine calls on one counter that
\* starts at zero, the events emitted, in order of emission, carry the
\* indices 0, 1, ..., n-1 without gap or repetition, and the counter is n.
IndicesDense ==
    /\ \A i \in 1..Len(pemitted) : pemitted[i].Index = i - 1
    /\ pcounter = Len(pemitted)

\* two calls have emitted three events or more, the last of them numbered
\* with the counter's value before it
IndicesDenseWitness ==
    /\ pcalls >= 2
    /\ Len(pemitted) >= 3
    /\ pemitted[Len(pemitted)].Index = Len(pemitted) - 1
    /\ pcounter = Len(pemitted)

\* the line is one well-formed JSON text that is an object
IsObjectLine(line) ==
    LET t == TrimSpace(line)
    IN  Len(t) = 1 /\ t[1] \in DocTexts /\ DocOf(t[1]).t = "object"

\* the object m has the string val under key
FieldIs(m, key, val) == key \in DOMAIN m /\ m[key] = JS(val)

\* the object m has an object under key
HasObject(m, key) == key \in DOMAIN m /\ m[key].t = "object"

\* the inputs the parser is to filter: a blank line; a stream_event whose
\* inner event is missing or malformed, of a type other than
\* content_block_delta and content_block_start, a content_block_delta that
\* is not a text_delta, a content_block_start that is not a tool_use
FilteredInput(line) ==
    \/ TrimSpace(line) = << >>
    \/ /\ IsObjectLine(line)
       /\ LET d == DocOf(TrimSpace(line)[1]).v
          IN  /\ FieldIs(d, "type", "stream_event")
              /\ \/ ~HasObject(d, "event")
                 \/ LET e == d["event"].v
                    IN  \/ /\ ~FieldIs(e, "type", "content_block_delta")
                           /\ ~FieldIs(e, "type", "content_block_start")
                        \/ /\ FieldIs(e, "type", "content_block_delta")
                           /\ ~(/\ HasObject(e, "delta")
                                /\ FieldIs(e["delta"].v, "type", "text_delta"))
                        \/ /\ FieldIs(e, "type", "content_block_start")
                           /\ ~(/\ HasObject(e, "content_block")
                                /\ FieldIs(e["content_block"].v, "type",
                                           "tool_use"))

\* C11: a call of ParseStreamLine on a filtered input returns no event and
\* leaves the shared counter where it was.
FilteredYieldsNothing ==
    (pcalls > 0 /\ FilteredInput(pline)) =>
        (plast = << >> /\ pcounter = pbefore)

\* after events were emitted, a call on a stream_event that is to be filtered
\* has returned nothing and the counter has kept its value
FilteredYieldsNothingWitness ==
    /\ pcalls >= 2
    /\ pbefore > 0
    /\ FilteredInput(pline)
    /\ IsObjectLine(pline)
    /\ plast = << >>
    /\ pcounter = pbefore

\* the line is not blank and is not a JSON object
NonObjectLine(line) == TrimSpace(line) # << >> /\ ~IsObjectLine(line)

\* C12: a call of ParseStreamLine on a non-blank line that does not decode
\* as an object returns exactly one raw event whose text is the trimmed line,
\* and advances the counter by one.
RawCarriesTrimmedLine ==
    (pcalls > 0 /\ NonObjectLine(pline)) =>
        /\ Len(plast) = 1
        /\ plast[1].Type = "raw"
        /\ plast[1].Text = TrimSpace(pline)
        /\ pcounter = pbefore + 1

\* the recorded calls of one method
CallsOf(op) == {i \in 1..Len(oplog) : oplog[i].op = op}

\* s is an initial part of t
IsPrefix(s, t) == Len(s) <= Len(t) /\ SubSeq(t, 1, Len(s)) = s

\* C13: EventsSince(cursor) returns the events from position max(cursor, 0)
\* to the end of the log, in log order: the whole log for a negative cursor,
\* nothing for a cursor at or past the number of events; it leaves the log
\* as it found it.
EventsSinceIsSuffix ==
    \A i \in CallsOf("EventsSince") :
        LET c == oplog[i]
            from == IF c.cursor < 0 THEN 0 ELSE c.cursor
            n == IF from >= Len(c.log) THEN 0 ELSE Len(c.log) - from
        IN  /\ Len(c.out) = n
            /\ \A k \in 1..n : c.out[k] = c.log[from + k]
            /\ c.cursor < 0 => c.out = c.log
            /\ c.cursor >= Len(c.log) => c.out = << >>
            /\ c.logLeft = c.log

\* EventsSince(1) was called on a log of two events and returned the second
EventsSinceIsSuffixWitness ==
    \E i \in CallsOf("EventsSince") :
        /\ oplog[i].cursor = 1
        /\ Len(oplog[i].log) = 2
        /\ oplog[i].out = <<oplog[i].log[2]>>

\* C14: the log only grows, by one event per AddEvent: after k calls of
\* AddEvent on a job its log holds those k events in call order, and the log
\* any earlier call saw or left is an initial part of the log a later call
\* on the same job sees.
LogIsAppendOnly ==
    /\ \A j \in DOMAIN job :
          LET adds == {i \in CallsOf("AddEvent") : oplog[i].id = j}
          IN  /\ Len(job[j].events) = Cardinality(adds)
              /\ \A i \in adds :
                    job[j].events[Cardinality({k \in adds : k <= i})]
                        = oplog[i].out[1]
    /\ \A i, k \in 1..Len(oplog) :
          (i < k /\ oplog[i].id # "" /\ oplog[i].id = oplog[k].id) =>
              /\ IsPrefix(oplog[i].log, oplog[i].logLeft)
              /\ IsPrefix(oplog[i].logLeft, oplog[k].log)
              /\ (oplog[i].op = "EventsSince" /\ oplog[k].op = "EventsSince"
                    /\ oplog[i].cursor = oplog[k].cursor)
                   => IsPrefix(oplog[i].out, oplog[k].out)

\* a snapshot of a non-empty log was taken, and AddEvent was called on the
\* same job afterwards
LogIsAppendOnlyWitness ==
    \E i \in CallsOf("EventsSince"), k \in CallsOf("AddEvent") :
        /\ i < k
        /\ oplog[i].id = oplog[k].id
        /\ Len(oplog[i].out) >= 1
        /\ Len(job[oplog[k].id].events) = 2

\* C20: a ClaimDir on a path nobody holds succeeds and takes it; a ClaimDir
\* on a held path returns false and leaves the ledger as it was; so of the
\* calls racing for one path, with no ReleaseDir of it among them, exactly
\* the first succeeds.
ClaimDirIsExclusive ==
    /\ \A i \in CallsOf("ClaimDir") :
          LET c == oplog[i]
          IN  /\ c.ok <=> c.path \notin c.held
              /\ c.ok => c.heldLeft = c.held \cup {c.path}
              /\ ~c.ok => c.heldLeft = c.held
    /\ \A i, k \in CallsOf("ClaimDir") :
          (i < k /\ oplog[i].path = oplog[k].path
                 /\ oplog[i].ok /\ oplog[k].ok) =>
              \E r \in CallsOf("ReleaseDir") :
                  i < r /\ r < k /\ oplog[r].path = oplog[i].path

\* two calls of ClaimDir on one path with no ReleaseDir between them: the
\* first returned true, the second false
ClaimDirIsExclusiveWitness ==
    \E i, k \in CallsOf("ClaimDir") :
        /\ k = i + 1
        /\ oplog[i].path = oplog[k].path
        /\ oplog[i].ok
        /\ ~oplog[k].ok
        /\ oplog[k].heldLeft = oplog[k].held

\* the positions of the event messages, and of the sentinels, among the
\* messages written to the s-th stream
EventMsgs(s) == {i \in 1..Len(strm[s].sent) : strm[s].sent[i].event = "message"}
DoneMsgs(s) == {i \in 1..Len(strm[s].sent) : strm[s].sent[i].event = "done"}

\* C15: whatever the starting cursor, the events a stream forwards have
\* strictly increasing indices, so none is forwarded twice.
StreamForwardsInOrder ==
    \A s \in 1..MaxStreams :
        \A i, k \in EventMsgs(s) :
            i < k => strm[s].sent[i].index < strm[s].sent[k].index

\* C16: in the step that writes the sentinel, every event then in the job's
\* log at a position at or after the stream's starting cursor has already
\* been forwarded on that stream.
SentinelAfterAllEvents ==
    [][\A s \in 1..MaxStreams :
          (strm[s].pc = "done" /\ strm'[s].pc = "closed") =>
              LET log == job[strm[s].id].events
                  from == IF strm[s].after < 0 THEN 0 ELSE strm[s].after
              IN  \A p \in (from + 1)..Len(log) :
                      \E i \in EventMsgs(s) :
                          strm[s].sent[i].index = log[p].Index]_vars

\* C17: a stream writes at most one sentinel; the step that writes it comes
\* after a status read that found the job terminal, and the sentinel carries
\* that status and the job's output directory as it then is; the sentinel is
\* the last message, and the handler has returned: nothing changes in the
\* stream afterwards.
OneSentinelLast ==
    /\ [](\A s \in 1..MaxStreams :
            /\ Cardinality(DoneMsgs(s)) <= 1
            /\ \A i \in DoneMsgs(s) :
                  /\ i = Len(strm[s].sent)
                  /\ strm[s].pc = "closed"
                  /\ strm[s].sent[i].status \in Terminal
                  /\ strm[s].sent[i].status = strm[s].status)
    /\ [][\A s \in 1..MaxStreams :
            /\ strm[s].pc = "closed" => strm'[s] = strm[s]
            /\ (\E i \in 1..Len(strm'[s].sent) :
                    i > Len(strm[s].sent) /\ strm'[s].sent[i].event = "done") =>
                  /\ strm[s].pc = "done"
                  /\ strm[s].status \in Terminal
                  /\ strm'[s].sent = Append(strm[s].sent,
                         DoneMessage(strm[s].status,
                                     job[strm[s].id].outputDir))]_vars

\* a stream has forwarded an event and then written the sentinel, which
\* names an output directory
OneSentinelLastWitness ==
    \E s \in 1..MaxStreams :
        /\ strm[s].pc = "closed"
        /\ Len(strm[s].sent) >= 2
        /\ strm[s].sent[Len(strm[s].sent)].event = "done"
        /\ strm[s].sent[Len(strm[s].sent)].output_dir # << >>
        /\ strm[s].sent[1].event = "message"

\* C18: once the server's context or the client's context is cancelled and
\* the handler has not read a terminal status, the handler writes nothing
\* more: its next step writes no event and does not take it to the sentinel.
NoMessageAfterCancellation ==
    [][\A s \in 1..MaxStreams :
          (/\ strm[s].pc \in {"select", "polled"}
           /\ srvCtx = "cancelled" \/ strm[s].ctx = "cancelled") =>
              /\ strm'[s].sent = strm[s].sent
              /\ strm'[s].pc # "done"]_vars

ReleaseMakesClaimable ==
    /\ \A r \in CallsOf("ReleaseDir") :
          /\ oplog[r].heldLeft = oplog[r].held \ {oplog[r].path}
          /\ oplog[r].path \notin oplog[r].held =>
                oplog[r].heldLeft = oplog[r].held
    /\ \A i, k \in CallsOf("ClaimDir") : \A r \in CallsOf("ReleaseDir") :
          (/\ i < r /\ r < k
           /\ oplog[i].ok
           /\ oplog[i].path = oplog[r].path /\ oplog[r].path = oplog[k].path
           /\ \A m \in CallsOf("ClaimDir") :
                 (r < m /\ m < k) => oplog[m].path # oplog[k].path)
              => oplog[k].ok

\* a path was claimed, released and claimed again, each claim returning true
ReleaseMakesClaimableWitness ==
    /\ Len(oplog) = 3
    /\ oplog[1].op = "ClaimDir" /\ oplog[1].ok
    /\ oplog[2].op = "ReleaseDir" /\ oplog[2].path = oplog[1].path
    /\ oplog[3].op = "ClaimDir" /\ oplog[3].path = oplog[1].path
    /\ oplog[3].ok

(***************************************************************************)
(* Properties of the output directory.                                     *)
(***************************************************************************)
\* the elements of a sequence
Range(f) == {f[i] : i \in DOMAIN f}

\* the new candidates of job j's run: in its post-run snapshot and not in
\* its pre-run snapshot
NewDirs(j) == DOMAIN run[j].postDirs \ DOMAIN run[j].preDirs

\* C22: no two jobs have the same non-empty output directory.
OutputDirsDistinct ==
    \A a, b \in DOMAIN job :
        (a # b /\ job[a].outputDir # << >>) =>
            job[a].outputDir # job[b].outputDir

\* two jobs whose runs both found one directory new: one has it as its
\* output directory, the other one fell through to another directory
OutputDirsDistinctWitness ==
    \E a, b \in DOMAIN run :
        /\ a # b
        /\ job[a].outputDir # << >>
        /\ run[b].pc = "final"
        /\ job[a].outputDir \in NewDirs(b)
        /\ job[b].outputDir # << >>

\* C23: once a run has gone through detectNewOutputDir, the job's output
\* directory is a new candidate, and every new candidate with a later
\* modification time is claimed by someone else; it is unset only if every
\* new candidate (there may be none) is claimed by someone else.  While the
\* loop runs, the candidates tried so far are the most recent ones and are
\* all claimed by someone else.
NewestUnclaimedIsTaken ==
    \A j \in DOMAIN run :
        LET post == run[j].postDirs
            left == Range(run[j].candidates)
        IN  /\ run[j].pc = "claim" =>
                  /\ job[j].outputDir = << >>
                  /\ left \subseteq NewDirs(j)
                  /\ \A p \in NewDirs(j) \ left :
                        /\ p \in claimedDirs
                        /\ \A q \in left : post[p] >= post[q]
            /\ run[j].pc \in {"setdir", "final", "seterr"} =>
                  /\ run[j].pc # "setdir" => job[j].outputDir = run[j].newDir
                  /\ run[j].newDir # << >> =>
                        /\ run[j].newDir \in NewDirs(j)
                        /\ run[j].newDir \in claimedDirs
                        /\ \A p \in NewDirs(j) :
                              post[p] > post[run[j].newDir] =>
                                  /\ p \in claimedDirs
                                  /\ \E o \in DOMAIN job \ {j} :
                                        job[o].outputDir = p
                                        \/ run[o].newDir = p
                  /\ run[j].newDir = << >> =>
                        \A p \in NewDirs(j) : p \in claimedDirs

\* a run found two new directories, the more recent one claimed by the
\* other job, and took the older one
NewestUnclaimedIsTakenWitness ==
    \E j \in DOMAIN run, o \in DOMAIN job :
        /\ o # j
        /\ run[j].pc = "final"
        /\ Cardinality(NewDirs(j)) = 2
        /\ job[j].outputDir \in NewDirs(j)
        /\ job[o].outputDir \in NewDirs(j)
        /\ run[j].postDirs[job[o].outputDir]
              > run[j].postDirs[job[j].outputDir]

\* C24: a directory of the pre-run snapshot of a run is not among its
\* candidates, is not claimed by a step of that run and does not become the
\* job's output directory.
PreExistingNeverClaimed ==
    /\ [](\A j \in DOMAIN run :
            /\ Range(run[j].candidates) \cap DOMAIN run[j].preDirs = {}
            /\ run[j].newDir \notin DOMAIN run[j].preDirs
            /\ job[j].outputDir \notin DOMAIN run[j].preDirs)
    /\ [][\A j \in DOMAIN run :
            /\ run'[j] # run[j] =>
                  (claimedDirs' \ claimedDirs) \cap DOMAIN run[j].preDirs = {}
            /\ job'[j].outputDir # job[j].outputDir =>
                  job'[j].outputDir \notin DOMAIN run[j].preDirs]_vars

\* a run ends with a directory of its pre-run snapshot modified since, more
\* recent than anything else, claimed by nobody, and not its output directory
PreExistingNeverClaimedWitness ==
    \E j \in DOMAIN run : \E p \in DOMAIN run[j].preDirs :
        /\ run[j].pc = "final"
        /\ run[j].postDirs[p] > run[j].preDirs[p]
        /\ \A q \in DOMAIN run[j].postDirs : run[j].postDirs[p] >= run[j].postDirs[q]
        /\ p \notin claimedDirs
        /\ job[j].outputDir # p

\* C25: a job's non-empty output directory is in the claim ledger; it is
\* set only by SetOutputDir(newDir) of the job's own run, and newDir is set
\* only by a ClaimDir of that run that found the path unclaimed and took it.
OutputDirIsOwnClaim ==
    /\ [](\A j \in DOMAIN job :
            job[j].outputDir # << >> => job[j].outputDir \in claimedDirs)
    /\ [][\A j \in DOMAIN run :
            /\ job'[j].outputDir # job[j].outputDir =>
                  /\ run[j].pc = "setdir"
                  /\ job'[j].outputDir = run[j].newDir
            /\ (run'[j].pc = "setdir" /\ run[j].pc # "setdir") =>
                  /\ run[j].pc = "claim"
                  /\ run'[j].newDir \notin claimedDirs
                  /\ claimedDirs' = claimedDirs \cup {run'[j].newDir}]_vars

\* a job holds the directory that the run of another job found new, failed
\* to claim, and left alone: that job has no output directory
OutputDirIsOwnClaimWitness ==
    \E a, b \in DOMAIN run :
        /\ a # b
        /\ job[a].outputDir # << >>
        /\ run[b].pc = "final"
        /\ NewDirs(b) = {job[a].outputDir}
        /\ job[b].outputDir = << >>

(***************************************************************************)
(* Properties of the registry.                                             *)
(***************************************************************************)
\* the job is terminal and older than maxJobAge
Expired(id) ==
    /\ job[id].status \in {"completed", "failed", "cancelled"}
    /\ now - job[id].createdAt > maxJobAge

\* C26: a sweep, and any step that takes a job out of the registry, removes
\* exactly the registered jobs that are terminal and older than maxJobAge:
\* every other job stays registered, and no job record is modified.
SweepRemovesExactlyExpired ==
    [][(Sweep \/ jobs \ jobs' # {}) =>
          /\ \A id \in jobs : id \in jobs' <=> ~Expired(id)
          /\ job' = job]_vars

\* a terminal job older than maxJobAge has been removed from the registry
SweepRemovesExactlyExpiredWitness ==
    \E id \in DOMAIN job \ jobs :
        /\ job[id].status \in Terminal
        /\ now - job[id].createdAt > maxJobAge

\* the methods of the claim ledger
LedgerOps == {"ClaimDir", "ReleaseDir"}

\* goroutine w is at its Lock or RLock and cannot be granted the mutex
Blocked(w) == wk[w].pc = "lock" /\ ~CanAcquire(w)

\* C27: a goroutine in ClaimDir or ReleaseDir never waits for a mutex that
\* a job-map method (Create, Get, List, Delete, CleanupExpired) holds, and a
\* goroutine in a job-map method never waits for one that ClaimDir or
\* ReleaseDir holds.
LedgerHasItsOwnLock ==
    \A w, v \in 1..MaxWorkers :
        (Blocked(w) /\ wk[v].pc = "held") =>
            (wk[w].op \in LedgerOps <=> wk[v].op \in LedgerOps)

\* the request has an empty query, an unrecognized model or a turn budget
\* that is not positive
Malformed(req) ==
    \/ req.Query = ""
    \/ req.Model \notin {"opus", "sonnet", "haiku"}
    \/ req.MaxTurns <= 0

\* C28: a POST /research with an empty query, an unrecognized model or a
\* non-positive turn budget is answered 400 and leaves the registry, the job
\* records, the started runs and the claim ledger as they were.
RejectedLeavesStoreAlone ==
    \A i \in CallsOf("POST /research") :
        Malformed(oplog[i].req) =>
            /\ oplog[i].code = 400
            /\ oplog[i].regLeft = oplog[i].reg
            /\ oplog[i].recsLeft = oplog[i].recs
            /\ oplog[i].runsLeft = oplog[i].runs
            /\ oplog[i].heldLeft = oplog[i].held

\* with a job registered and holding an output directory, a request with a
\* turn budget of zero and nothing else wrong was rejected
RejectedLeavesStoreAloneWitness ==
    \E i \in CallsOf("POST /research") :
        /\ oplog[i].req.Query # ""
        /\ oplog[i].req.Model = "opus"
        /\ oplog[i].req.MaxTurns = 0
        /\ oplog[i].code = 400
        /\ oplog[i].reg # {}
        /\ oplog[i].held # {}

\* C29: Create registers a record with status pending and an empty log;
\* Get(id) finds the record of id exactly when id is registered, and returns
\* nothing otherwise; and an identifier leaves the registry only by a
\* Delete of it or by a sweep that finds its job expired.
CreatedIsFoundUntilRemoved ==
    /\ [](\A i \in CallsOf("Get") :
            /\ oplog[i].ok <=> oplog[i].id \in oplog[i].reg
            /\ oplog[i].ok => oplog[i].ref = oplog[i].id
            /\ ~oplog[i].ok => oplog[i].ref = ""
            /\ oplog[i].regLeft = oplog[i].reg)
    /\ [][\A id \in JobIds :
            /\ (id \notin DOMAIN job /\ id \in DOMAIN job') =>
                  /\ id \in jobs'
                  /\ job'[id].status = "pending"
                  /\ job'[id].events = << >>
            /\ (id \in jobs /\ id \notin jobs') =>
                  \/ /\ Len(oplog') = Len(oplog) + 1
                     /\ oplog'[Len(oplog')].op = "Delete"
                     /\ oplog'[Len(oplog')].id = id
                  \/ oplog' = oplog /\ Expired(id)]_vars

\* Get found a job, the job was deleted, and Get did not find it
CreatedIsFoundUntilRemovedWitness ==
    \E i, k \in CallsOf("Get") : \E d \in CallsOf("Delete") :
        /\ i < d /\ d < k
        /\ oplog[i].id = oplog[d].id /\ oplog[d].id = oplog[k].id
        /\ oplog[i].ok /\ job[oplog[i].id].status = "pending"
        /\ ~oplog[k].ok

\* C30: every status ToStatus returns has output_lines equal to the number
\* of events the log then holds and num_turns equal to the number of those
\* of type assistant and subtype text; so num_turns <= output_lines.
StatusCountsAreConsistent ==
    \A i \in CallsOf("ToStatus") :
        LET log == oplog[i].log
            turns == {k \in 1..Len(log) :
                        log[k].Type = "assistant" /\ log[k].Subtype = "text"}
        IN  /\ oplog[i].out.output_lines = Len(log)
            /\ oplog[i].out.num_turns = Cardinality(turns)
            /\ oplog[i].out.num_turns <= oplog[i].out.output_lines
            /\ oplog[i].logLeft = log

\* ToStatus was called on a log holding an assistant text and an assistant
\* tool use, and reported one turn in two lines
StatusCountsAreConsistentWitness ==
    \E i \in CallsOf("ToStatus") :
        /\ Len(oplog[i].log) = 2
        /\ \E k \in 1..2 : oplog[i].log[k].Subtype = "tool_use"
        /\ oplog[i].out.num_turns = 1
        /\ oplog[i].out.output_lines = 2

(***************************************************************************)
(* Properties of the subprocess environment.                               *)
(***************************************************************************)
\* the entries of a list whose key is the given one
EntriesOf(list, key) == {i \in 1..Len(list) : list[i].key = key}

\* a variable FilteredEnv neither strips nor resolves
PassesThrough(e) ==
    /\ ~HasPrefix(e.key, "CLAUDE")
    /\ e.key # MaxKey
    /\ e.key # AnthropicKey

\* C31: what FilteredEnv returns holds no variable whose key starts with
\* CLAUDE and no MAX_API_KEY; it holds at most one ANTHROPIC_API_KEY entry,
\* one exactly when the resolved key is not empty, and its value is
\* MAX_API_KEY's when that is set and not empty, the original
\* ANTHROPIC_API_KEY's otherwise; when neither is set it holds none; the
\* other variables are the environment's, unchanged and in their order.
FilteredEnvResolvesKey ==
    filtered.called =>
        LET env == filtered.env
            out == filtered.out
            want == IF Getenv(env, MaxKey) # "" THEN Getenv(env, MaxKey)
                    ELSE Getenv(env, AnthropicKey)
        IN  /\ \A i \in 1..Len(out) : ~HasPrefix(out[i].key, "CLAUDE")
            /\ EntriesOf(out, MaxKey) = {}
            /\ Cardinality(EntriesOf(out, AnthropicKey)) <= 1
            /\ \A i \in EntriesOf(out, AnthropicKey) : out[i].value = want
            /\ (want # "") <=> (EntriesOf(out, AnthropicKey) # {})
            /\ (EntriesOf(env, MaxKey) = {} /\ EntriesOf(env, AnthropicKey) = {})
                   => EntriesOf(out, AnthropicKey) = {}
            /\ SelectSeq(out, PassesThrough) = SelectSeq(env, PassesThrough)

\* C31 witness: both keys set and not empty, with different values, next to
\* a CLAUDE variable; the result carries MAX_API_KEY's value
FilteredEnvResolvesKeyWitness ==
    /\ filtered.called
    /\ Getenv(filtered.env, MaxKey) = "k1"
    /\ Getenv(filtered.env, AnthropicKey) = "k2"
    /\ \E i \in 1..Len(filtered.env) : HasPrefix(filtered.env[i].key, "CLAUDE")
    /\ \E i \in 1..Len(filtered.out) :
          filtered.out[i] = EnvEntry(AnthropicKey, "k1")

(***************************************************************************)
(* Properties of what a run records.                                       *)
(***************************************************************************)
\* an event of type system whose payload exposes a non-empty session_id
ExposesSession(evt) ==
    /\ evt.Type = "system"
    /\ ~evt.Raw.isNil
    /\ stringVal(evt.Raw.m, "session_id").ok
    /\ stringVal(evt.Raw.m, "session_id").s # ""

\* the positions of a job's log holding such events
SessionEvents(j) ==
    {i \in 1..Len(job[j].events) : ExposesSession(job[j].events[i])}

\* C32: a job's session identifier is the one exposed by the first system
\* event of its run that carries a non-empty session_id; later system events
\* with another session_id do not change it.
SessionIsFirstExposed ==
    \A j \in DOMAIN job :
        SessionEvents(j) # {} =>
            LET first == CHOOSE i \in SessionEvents(j) :
                             \A k \in SessionEvents(j) : i <= k
            IN  job[j].sessionID =
                    stringVal(job[j].events[first].Raw.m, "session_id").s

(***************************************************************************)
(* Properties of the parser on assistant lines.                            *)
(***************************************************************************)
\* the line is a JSON object of type assistant
AssistantLine(line) ==
    /\ IsObjectLine(line)
    /\ FieldIs(DocOf(TrimSpace(line)[1]).v, "type", "assistant")

\* the content list of the line's message, empty when there is none
ContentList(line) ==
    LET d == DocOf(TrimSpace(line)[1]).v
    IN  IF /\ HasObject(d, "message")
           /\ "content" \in DOMAIN d["message"].v
           /\ d["message"].v["content"].t = "array"
        THEN d["message"].v["content"].v
        ELSE << >>

\* a content block of a recognized type
Recognized(b) ==
    /\ b.t = "object"
    /\ (FieldIs(b.v, "type", "text") \/ FieldIs(b.v, "type", "tool_use"))

\* C33: on a line of type assistant, ParseStreamLine returns one event per
\* recognized content block (text, tool_use), in block order and with the
\* block's type as subtype; when the content list is absent, empty or has no
\* recognized block it returns exactly one assistant event with no subtype
\* and no payload; it returns at least one event and the counter advances by
\* the number of events returned.
AssistantBlocksEmitted ==
    (pcalls > 0 /\ AssistantLine(pline)) =>
        LET rec == SelectSeq(ContentList(pline), Recognized)
        IN  /\ Len(plast) >= 1
            /\ pcounter = pbefore + Len(plast)
            /\ \A i \in 1..Len(plast) : plast[i].Type = "assistant"
            /\ IF rec = << >>
               THEN plast = << [ZeroEvent EXCEPT !.Type = "assistant",
                                                 !.Index = pbefore] >>
               ELSE /\ Len(plast) = Len(rec)
                    /\ \A i \in 1..Len(rec) :
                          plast[i].Subtype = rec[i].v["type"].v

\* C33 witness: after events were emitted, a call on an assistant line whose
\* content holds a text block, an unrecognized block and a tool_use block
\* has returned the text event and then the tool_use event
AssistantBlocksEmittedWitness ==
    /\ pbefore > 0
    /\ AssistantLine(pline)
    /\ Len(ContentList(pline)) = 3
    /\ Len(plast) = 2
    /\ plast[1].Subtype = "text"
    /\ plast[2].Subtype = "tool_use"
    /\ pcounter = pbefore + 2

(***************************************************************************)
(* Properties of the end of a stream.                                      *)
(***************************************************************************)
\* the s-th stream handler is in its loop
Attached(s) == strm[s].pc \in {"select", "polled", "done"}

\* the s-th stream handler has written the sentinel and returned
EndedBySentinel(s) == strm[s].pc = "closed" /\ DoneMsgs(s) # {}

\* the s-th stream handler writes the sentinel and returns
SentinelStep(s) == strm[s].pc = "done" /\ strm'[s].pc = "closed"

\* the server's context or the context of the s-th stream's request is done
ContextDone(s) == srvCtx = "cancelled" \/ strm[s].ctx = "cancelled"

\* C34, first half: a stream attached to a job whose status is terminal
\* writes the sentinel and returns, unless one of its contexts is cancelled.
TerminalEndsStream ==
    \A s \in 1..MaxStreams :
        (Attached(s) /\ job[strm[s].id].status \in Terminal)
            ~> (EndedBySentinel(s) \/ ContextDone(s))

\* C34, second half: no stream handler writes the sentinel and returns while
\* its job's status is pending or running.
NoSentinelBeforeTerminal ==
    [][\A s \in 1..MaxStreams :
          SentinelStep(s) => job[strm[s].id].status \notin {"pending", "running"}]_vars

\* C34: a stream attached to a job that has reached a terminal status ends
\* with the sentinel unless a context is cancelled, and no stream ends with
\* the sentinel while its job is pending or running.
SentinelIffTerminal == TerminalEndsStream /\ NoSentinelBeforeTerminal

\* a sentinel the s-th stream handler wrote with status completed or failed
FinishedSentinels(s) ==
    {i \in DoneMsgs(s) : strm[s].sent[i].status \in {"completed", "failed"}}

\* C35: the output directory is recorded before the status is set to
\* completed or failed: while a job's status is completed or failed no step
\* changes its output directory, so a sentinel carrying completed or failed
\* carries the job's output directory, which is not empty when the run
\* claimed a directory.
OutputDirBeforeStatus ==
    /\ [](\A s \in 1..MaxStreams : \A i \in FinishedSentinels(s) :
             /\ strm[s].sent[i].output_dir = job[strm[s].id].outputDir
             /\ claimedDirs # {} => strm[s].sent[i].output_dir # << >>)
    /\ [][\A j \in DOMAIN job :
             job[j].status \in {"completed", "failed"}
                 => job'[j].outputDir = job[j].outputDir]_vars

\* C35 witness: a stream has ended with a sentinel carrying completed and
\* the directory the run claimed
OutputDirBeforeStatusWitness ==
    \E s \in 1..MaxStreams :
        /\ strm[s].pc = "closed"
        /\ \E i \in FinishedSentinels(s) :
              /\ strm[s].sent[i].status = "completed"
              /\ strm[s].sent[i].output_dir # << >>
              /\ strm[s].sent[i].output_dir \in claimedDirs

\* what of a job record the Runner writes besides the status
Recorded(rec) ==
    <<rec.events, rec.outputDir, rec.errMsg, rec.sessionID, rec.resultInfo>>

\* C36: once a job's status is terminal, no step changes its event log, its
\* output directory, its error message, its session identifier or its
\* result statistics.
FrozenAfterTerminal ==
    [][\A j \in DOMAIN job :
          job[j].status \in Terminal => Recorded(job'[j]) = Recorded(job[j])]_vars

\* C37: the sweep removes no job whose Runner has not returned: in a step
\* that takes a job out of the registry, the Run goroutine of that job has
\* returned.
SweepSparesLiveRuns ==
    [][\A j \in jobs \ jobs' : run[j].pc = "done"]_vars

(***************************************************************************)
(* Properties of event indices and stream cursors.                         *)
(***************************************************************************)
IsEventMessage(msg) == msg.event = "message"

IsReleaseOf(path) ==
    /\ Len(oplog') = Len(oplog) + 1
    /\ oplog'[Len(oplog')].op = "ReleaseDir"
    /\ oplog'[Len(oplog')].path = path

\* C39: a step that takes a job out of the registry (CleanupExpired, Delete)
\* leaves the claim ledger as it was, and a step that takes a path out of
\* the ledger is a call of ReleaseDir on that path.
RemovalKeepsClaims ==
    [][/\ jobs \ jobs' # {} => claimedDirs' = claimedDirs
       /\ \A path \in claimedDirs \ claimedDirs' : IsReleaseOf(path)]_vars

\* C39 witness: a job whose run claimed an output directory has been removed
\* from the registry and the directory is still claimed
RemovalKeepsClaimsWitness ==
    \E id \in DOMAIN job \ jobs :
        /\ job[id].outputDir # << >>
        /\ job[id].outputDir \in claimedDirs

(***************************************************************************)
(* Properties of the two mutexes.                                          *)
(***************************************************************************)
\* goroutine w holds s.mu
HoldsStore(w) == smu.writer = w \/ w \in smu.readers

\* goroutine w holds the mutex of job j
HoldsJob(w, j) == jmu[j].writer = w \/ w \in jmu[j].readers

\* goroutine w can take its next step
CanStep(w) ==
    \/ wk[w].pc = "lock" /\ CanAcquire(w)
    \/ wk[w].pc = "jlock" /\ CanAcquireJob(w)
    \/ wk[w].pc \in {"held", "jheld"}

\* C40: no interleaving of Store and Job methods deadlocks: while some
\* goroutine is inside a method, some goroutine can take a step; a goroutine
\* at or past s.mu.Lock()/RLock() without having it holds no job's mutex (the
\* Store's mutex is never asked for while a job's is held); a job's mutex is
\* held alone or under s.mu; and a goroutine outside every method holds no
\* mutex.
NoLockCycle ==
    /\ (\E w \in 1..MaxWorkers : wk[w].pc # "idle")
           => \E w \in 1..MaxWorkers : CanStep(w)
    /\ \A w \in 1..MaxWorkers :
          /\ wk[w].pc = "lock" => \A j \in JobIds : ~HoldsJob(w, j)
          /\ \A j \in JobIds :
                HoldsJob(w, j) =>
                    /\ wk[w].pc = "jheld" /\ wk[w].id = j
                    /\ HoldsStore(w) <=> wk[w].op \in VisitOps
          /\ wk[w].pc = "idle" =>
                /\ ~HoldsStore(w)
                /\ \A j \in JobIds : ~HoldsJob(w, j)
    /\ smu.writer # 0 => smu.readers = {}
    /\ \A j \in JobIds : jmu[j].writer # 0 => jmu[j].readers = {}

\* C40 witness: a goroutine in CleanupExpired holds s.mu and waits at
\* j.mu.RLock() for a goroutine that holds the job's mutex in AddEvent
NoLockCycleWitness ==
    \E w, v \in 1..MaxWorkers :
        /\ wk[w].op = "CleanupExpired" /\ wk[w].pc = "jlock"
        /\ smu.writer = w
        /\ wk[v].op = "AddEvent" /\ wk[v].pc = "jheld"
        /\ jmu[wk[w].id].writer = v
        /\ ~CanAcquireJob(w)

====
